---- MODULE Spec2Model ----
(***************************************************************************)
(* Payment-to-inventory settlement core of the e-commerce backend:         *)
(* orders, payments, product stock, the Stripe webhook handlers and the    *)
(* manual verification path (src/src/modules/payment/payment.service.ts,   *)
(* src/src/modules/order/order.service.ts).                                *)
(*                                                                         *)
(* The committed database is the variables stock, orders, ordTotal,        *)
(* ordStatus, payStatus, payProvider, payTxn, payRaw.  Spec, SpecHooks,    *)
(* SpecSucc, SpecRefund, SpecAdmin and SpecRetry run every handler as one  *)
(* step (requests handled one after another); SpecConc runs the success    *)
(* handler of two concurrent requests statement by statement under         *)
(* read-committed isolation with row locks.                                *)
(***************************************************************************)
EXTENDS Integers, Sequences, FiniteSets, TLC

\* ------------------------------------------------------------------ bounds
MaxStock == 3

\* ------------------------------------------------------- program constants
HttpOk == 200
HttpBadRequest == 400
HttpPaymentError == 402
HttpNotFound == 404
HttpInsufficientStock == 409
HttpInternalError == 500

Products == {"pA", "pB"}
OrderIds == {1, 2}
NoPayment == 0
Workers == {"w1", "w2"}

\* Carts a client may submit to createOrder: sequences of {productId, quantity}.
Item(p, q) == [productId |-> p, quantity |-> q]
Carts ==
  { <<Item("pA", 1), Item("pB", 2)>>,
    <<Item("pB", 1)>>,
    <<Item("pA", 2)>>,
    <<Item("pA", 1), Item("pA", 1)>> }

\* External transaction identifiers.  A Stripe payment intent of order o is
\* <<"pi", o>>, a bKash paymentID <<"bk", o>>, a bKash trxID <<"trx", o>>;
\* <<"pi", 0>> is an intent id no Payment row ever carries.
Intent(o) == <<"pi", o>>
BkashId(o) == <<"bk", o>>
BkashTrx(o) == <<"trx", o>>
RefundId(o) == <<"re", o>>
NoTxn == <<"none", 0>>
WebhookTxns == {Intent(o) : o \in OrderIds \cup {NoPayment}}

EventTypes ==
  { "payment_intent.succeeded", "payment_intent.payment_failed",
    "payment_intent.canceled", "payment_intent.created" }

VARIABLES
  stock,        \* Product.stock, committed
  price,        \* Product.price
  orders,       \* Order.items (productId, quantity, price, subtotal), <<>>
                \* while the order does not exist
  ordTotal,     \* Order.totalAmount
  ordStatus,    \* Order.status, "NONE" while the order does not exist
  payStatus,    \* Payment.status of the order's Payment, "NONE" while none
  payProvider,  \* Payment.provider
  payTxn,       \* Payment.transactionId
  payRaw,       \* Payment.rawResponse
  payRows,      \* number of Payment rows per Payment.orderId
  stock0,       \* history: the stock the products were created with
  dec,          \* history: committed stock-reduction rounds per order
  last,         \* the request handled by the last step and its HTTP answer
  io,           \* what the last request met outside the database: the
                \* stripe-signature header it carried, the provider call made
  strategies,   \* PaymentStrategyFactory.strategies, the static Map
  made,         \* history: strategy instances constructed so far, per class
  token,        \* BkashPaymentStrategy.token of the bKash instance, NoToken = null
  tokenExpiry,  \* BkashPaymentStrategy.tokenExpiry, in minutes
  now,          \* Date.now(), in minutes
  catParent,    \* Category.parentId per category id
  catTree,      \* the cache entry 'category:tree'
  prodCache,    \* the cache entries 'product:<id>'
  pc,           \* per worker: position inside the handler it runs
  snap,         \* per worker: the row read at the start of the handler
  cursor        \* per worker: index of the order item the loop is at, or
                \* the value the request carries

vars == <<stock, price, orders, ordTotal, ordStatus, payStatus, payProvider,
          payTxn, payRaw, payRows, stock0, dec, last, io, strategies, made, token,
          tokenExpiry, now, catParent, catTree, prodCache, pc, snap, cursor>>
dbVars == <<stock, price, orders, ordTotal, ordStatus, payStatus, payProvider,
            payTxn, payRaw, payRows>>
factoryVars == <<strategies, made>>
tokenVars == <<token, tokenExpiry, now>>
workerVars == <<pc, snap, cursor>>
catalogVars == <<catParent, catTree, prodCache>>
procVars == <<factoryVars, tokenVars, catalogVars>>

\* The categories that can exist.  Category.parentId is null for a root;
\* a category id that was never created, or was deleted, has no row.
MaxCategories == 3
Categories == 1..MaxCategories
NoParent == 0
Absent == -1
Deleted == -2

\* part_006:5-12: every product carries the id of an existing category; the
\* two products of the catalogue are in the first category, a root.
ProductCategory == 1

\* A cache entry that is not there (cacheService.get answers null).
NoTree == [present |-> FALSE, parent |-> [c \in Categories |-> Absent]]
NotCached == [present |-> FALSE, stock |-> 0, price |-> 0]

\* A handled request: the entry point, the verified webhook event type (""
\* when there is none), the id it names, the HTTP status answered and the
\* line the handler logged.
Request(op, type, arg, http, log) ==
  [op |-> op, type |-> type, arg |-> arg, http |-> http, log |-> log]

\* The signature header a webhook request carried ("" for other requests)
\* and the payment provider's answer to the call the handler made to it
\* ("none" when it made no call).
Io(sig, remote) == [sig |-> sig, remote |-> remote]
NoIo == Io("", "none")

\* Payment.rawResponse, a JSON object: the keys the handlers write.  A key
\* that is absent is "", FALSE, NoTxn or NoAmount; the two timestamps are
\* kept as "the key is present".
NoAmount == 0
NoRaw ==
  [ initiated |-> FALSE,        \* clientSecret, redirectUrl
    webhookEvent |-> "",        \* webhookEvent.type
    verificationResult |-> "",  \* verificationResult.verified
    verifiedAt |-> FALSE,
    refundId |-> NoTxn,
    refundedAt |-> FALSE,
    refundAmount |-> NoAmount ]

\* The committed rows a settlement transaction reads and writes.
Db == [stock |-> stock, payStatus |-> payStatus, ordStatus |-> ordStatus,
       payTxn |-> payTxn, payRaw |-> payRaw]

\* Product.price the products are created with, in whole currency units.
Price(pr) == IF pr = "pA" THEN 2 ELSE 3

\* --------------------------------------------------- PaymentStrategyFactory
\* Provider names are strings of characters, so that toLowerCase is computed.
StripeName == <<"s", "t", "r", "i", "p", "e">>
BkashName == <<"b", "k", "a", "s", "h">>

\* String.prototype.toLowerCase on the letters the names are written with.
LowerChar(c) ==
  CASE c = "S" -> "s" [] c = "T" -> "t" [] c = "R" -> "r" [] c = "I" -> "i"
    [] c = "P" -> "p" [] c = "E" -> "e" [] c = "B" -> "b" [] c = "K" -> "k"
    [] c = "A" -> "a" [] c = "H" -> "h" [] c = "Y" -> "y" [] c = "L" -> "l"
    [] OTHER -> c
ToLowerCase(name) == [i \in 1..Len(name) |-> LowerChar(name[i])]

\* The name a request gives ("stripe", "bkash") and the Payment.provider
\* enum ("STRIPE", "BKASH") as strings of characters.
NameOf(provider) ==
  CASE provider = "stripe" -> StripeName
    [] provider = "bkash" -> BkashName
    [] provider = "STRIPE" -> <<"S", "T", "R", "I", "P", "E">>
    [] provider = "BKASH" -> <<"B", "K", "A", "S", "H">>
    [] provider = "Stripe" -> <<"S", "t", "r", "i", "p", "e">>
    [] provider = "bKash" -> <<"b", "K", "a", "s", "h">>
    [] provider = "PayPal" -> <<"P", "a", "y", "P", "a", "l">>
    [] provider = "stripe " -> <<"s", "t", "r", "i", "p", "e", " ">>
    [] OTHER -> <<>>

\* A strategy instance: its class and which construction of that class it is.
NoStrategy == [class |-> "none", id |-> 0]
Classes == {"StripePaymentStrategy", "BkashPaymentStrategy"}
EmptyMap == [k \in {} |-> NoStrategy]
MapSet(map, key, value) ==
  [k \in DOMAIN map \cup {key} |-> IF k = key THEN value ELSE map[k]]

\* Variant: the name is looked up as given, without toLowerCase.
GetStrategy_CaseSensitive(provider, map, cnt) ==
  LET key == provider
      class == IF key = StripeName THEN "StripePaymentStrategy"
               ELSE "BkashPaymentStrategy"
      inst == [class |-> class, id |-> cnt[class] + 1]
  IN IF key \in DOMAIN map
     THEN [ok |-> TRUE, strategy |-> map[key], strategies |-> map, made |-> cnt]
     ELSE IF key \in {StripeName, BkashName}
     THEN [ok |-> TRUE, strategy |-> inst,
           strategies |-> MapSet(map, key, inst),
           made |-> [cnt EXCEPT ![class] = @ + 1]]
     ELSE [ok |-> FALSE, strategy |-> NoStrategy, strategies |-> map, made |-> cnt]

\* Variant: a new instance is constructed and cached on every call.
GetStrategy_AlwaysNew(provider, map, cnt) ==
  LET key == ToLowerCase(provider)
      class == IF key = StripeName THEN "StripePaymentStrategy"
               ELSE "BkashPaymentStrategy"
      inst == [class |-> class, id |-> cnt[class] + 1]
  IN IF key \in {StripeName, BkashName}
     THEN [ok |-> TRUE, strategy |-> inst,
           strategies |-> MapSet(map, key, inst),
           made |-> [cnt EXCEPT ![class] = @ + 1]]
     ELSE [ok |-> FALSE, strategy |-> NoStrategy, strategies |-> map, made |-> cnt]

\* part_001:29-61 getStrategy on the Map map, with cnt instances constructed
\* so far: the instance returned (ok = FALSE when it throws ValidationError),
\* the Map and the count afterwards.
GetStrategy(provider, map, cnt) ==
  LET key == ToLowerCase(provider)
      class == IF key = StripeName THEN "StripePaymentStrategy"
               ELSE "BkashPaymentStrategy"
      inst == [class |-> class, id |-> cnt[class] + 1]
  IN IF key \in DOMAIN map
     THEN [ok |-> TRUE, strategy |-> map[key], strategies |-> map, made |-> cnt]
     ELSE IF key \in {StripeName, BkashName}
     THEN [ok |-> TRUE, strategy |-> inst,
           strategies |-> MapSet(map, key, inst),
           made |-> [cnt EXCEPT ![class] = @ + 1]]
     ELSE [ok |-> FALSE, strategy |-> NoStrategy, strategies |-> map, made |-> cnt]

\* A handler's PaymentStrategyFactory.getStrategy(provider) call.
UseStrategy(provider) ==
  LET g == GetStrategy(provider, strategies, made)
  IN strategies' = g.strategies /\ made' = g.made

\* The Map once the strategies of the given providers have been used.
RECURSIVE CachedAfter(_)
CachedAfter(providers) ==
  IF providers = <<>> THEN [strategies |-> EmptyMap, made |-> [c \in Classes |-> 0]]
  ELSE LET before == CachedAfter(Tail(providers))
           g == GetStrategy(Head(providers), before.strategies, before.made)
       IN [strategies |-> g.strategies, made |-> g.made]

\* ----------------------------------------------------- bKash token cache
\* The token and its expiry live in the BkashPaymentStrategy instance; time
\* is counted in minutes.  The request handlers above the strategy see only
\* the provider's answer, so they leave these variables alone; getToken is
\* modelled on its own by GetToken below.
NoToken == 0

\* part_002:45  5 * 60 * 1000 milliseconds
TokenBuffer == 5

\* Variant: a token expiring in exactly five minutes is still reused.
CachedTokenUsable_AtBuffer(tok, expiry, t) ==
  tok # NoToken /\ expiry >= t + TokenBuffer

\* part_002:45  this.token && this.tokenExpiry > now + 5 * 60 * 1000
CachedTokenUsable(tok, expiry, t) ==
  tok # NoToken /\ expiry > t + TokenBuffer

\* ----------------------------------------------------------------- Init
\* Empty Order and Payment tables; every product in stock, with MaxStock - 1
\* or MaxStock units (lower stocks are reached by settlements).
Init ==
  /\ stock \in [Products -> (MaxStock - 1)..MaxStock]
  /\ stock0 = stock
  /\ price = [pr \in Products |-> Price(pr)]
  /\ orders = [o \in OrderIds |-> <<>>]
  /\ ordTotal = [o \in OrderIds |-> 0]
  /\ ordStatus = [o \in OrderIds |-> "NONE"]
  /\ payStatus = [o \in OrderIds |-> "NONE"]
  /\ payProvider = [o \in OrderIds |-> "NONE"]
  /\ payTxn = [o \in OrderIds |-> NoTxn]
  /\ payRaw = [o \in OrderIds |-> NoRaw]
  /\ dec = [o \in OrderIds |-> 0]
  /\ last = Request("start", "", NoTxn, HttpOk, "")
  /\ io = NoIo
  /\ strategies = EmptyMap
  /\ made = [c \in Classes |-> 0]
  /\ payRows = [o \in OrderIds |-> IF payStatus[o] = "NONE" THEN 0 ELSE 1]
  /\ catParent = [c \in Categories |->
                    IF c = ProductCategory THEN NoParent ELSE Absent]
  /\ catTree = NoTree
  /\ prodCache = [pr \in Products |-> NotCached]
  /\ token = NoToken
  /\ tokenExpiry = 0
  /\ now = 0
  /\ pc = [w \in Workers |-> "idle"]
  /\ snap = [w \in Workers |-> NoPayment]
  /\ cursor = [w \in Workers |-> 0]

\* ------------------------------------------------- OrderService.createOrder
ProductIds(cart) == {cart[i].productId : i \in 1..Len(cart)}

\* products.length !== productIds.length: findMany returns each row once.
AllProductsFound(cart) == Cardinality(ProductIds(cart)) = Len(cart)

CartInStock(cart, stk) ==
  \A i \in 1..Len(cart) : stk[cart[i].productId] >= cart[i].quantity

\* Variant: the subtotal of an item is its unit price.
OrderItems_UnitSubtotal(cart, prices) ==
  [i \in 1..Len(cart) |->
     [productId |-> cart[i].productId, quantity |-> cart[i].quantity,
      price |-> prices[cart[i].productId],
      subtotal |-> prices[cart[i].productId]]]

\* order.service.ts:63-74: an order item holds the product's price as read
\* in the transaction and subtotal = price * quantity.
OrderItems(cart, prices) ==
  [i \in 1..Len(cart) |->
     [productId |-> cart[i].productId, quantity |-> cart[i].quantity,
      price |-> prices[cart[i].productId],
      subtotal |-> prices[cart[i].productId] * cart[i].quantity]]

\* order.service.ts:39-66: totalAmount is the sum of the items' subtotals.
RECURSIVE CartTotal(_, _)
CartTotal(items, i) ==
  IF i > Len(items) THEN 0
  ELSE items[i].subtotal + CartTotal(items, i + 1)

NextOrderId ==
  IF \E o \in OrderIds : ordStatus[o] = "NONE"
  THEN CHOOSE o \in OrderIds :
         ordStatus[o] = "NONE" /\ \A n \in OrderIds : ordStatus[n] = "NONE" => o <= n
  ELSE 0

CreateOrder(cart) ==
  /\ NextOrderId # 0
  /\ io' = NoIo
  /\ UNCHANGED procVars
  /\ LET o == NextOrderId IN
     IF ~AllProductsFound(cart)
     THEN /\ last' = Request("createOrder", "", <<"order", 0>>, HttpNotFound,
                          "One or more products not found")
          /\ UNCHANGED <<dbVars, stock0, dec>>
     ELSE IF ~CartInStock(cart, stock)
     THEN /\ last' = Request("createOrder", "", <<"order", 0>>,
                          HttpInsufficientStock, "Insufficient stock")
          /\ UNCHANGED <<dbVars, stock0, dec>>
     ELSE /\ orders' = [orders EXCEPT ![o] = OrderItems(cart, price)]
          /\ ordTotal' = [ordTotal EXCEPT
                           ![o] = CartTotal(OrderItems(cart, price), 1)]
          /\ ordStatus' = [ordStatus EXCEPT ![o] = "PENDING"]
          /\ last' = Request("createOrder", "", <<"order", o>>, HttpOk,
                          "Order created")
          /\ UNCHANGED <<stock, price, payStatus, payProvider, payRows, payTxn, payRaw,
                         stock0, dec>>

\* --------------------------------------------- PaymentService.initiatePayment
ProviderTxn(provider, o) == IF provider = "bkash" THEN BkashId(o) ELSE Intent(o)
ProviderEnum(provider) == IF provider = "bkash" THEN "BKASH" ELSE "STRIPE"

\* Variant: only a Payment still PENDING blocks a new initiation.
PaymentExists_PendingOnly(o) == payStatus[o] = "PENDING"

\* payment.service.ts:30  order.payments.length > 0
PaymentExists(o) == payStatus[o] # "NONE"

\* Variant: the Payment table accepts a second row for an order.
UniqueOrderId_NotEnforced(rows, o) == TRUE

\* part_000:378  orderId String @unique: prisma.payment.create inserts only
\* when no Payment row carries the orderId, and throws otherwise.
UniqueOrderId(rows, o) == rows[o] = 0

InitiatePayment(o, provider, providerOk) ==
  /\ UNCHANGED <<workerVars, tokenVars, catalogVars>>
  /\ IF ordStatus[o] = "NONE" \/ PaymentExists(o)
     THEN UNCHANGED factoryVars
     ELSE UseStrategy(NameOf(provider))
  /\ IF ordStatus[o] = "NONE"
     THEN /\ last' = Request("initiate", "", <<"order", o>>, HttpNotFound,
                          "Order not found")
          /\ io' = NoIo
          /\ UNCHANGED <<dbVars, stock0, dec>>
     ELSE IF PaymentExists(o)
     THEN /\ last' = Request("initiate", "", <<"order", o>>, HttpPaymentError,
                          "Payment already initiated for this order")
          /\ io' = NoIo
          /\ UNCHANGED <<dbVars, stock0, dec>>
     ELSE IF ~providerOk
     THEN /\ last' = Request("initiate", "", <<"order", o>>, HttpPaymentError,
                          "Payment initiation failed")
          /\ io' = Io("", "declined")
          /\ UNCHANGED <<dbVars, stock0, dec>>
     ELSE IF ~UniqueOrderId(payRows, o)
     THEN /\ last' = Request("initiate", "", <<"order", o>>, HttpInternalError,
                          "Internal server error")
          /\ io' = Io("", "ok")
          /\ UNCHANGED <<dbVars, stock0, dec>>
     ELSE /\ payStatus' = [payStatus EXCEPT ![o] = "PENDING"]
          /\ payProvider' = [payProvider EXCEPT ![o] = ProviderEnum(provider)]
          /\ payTxn' = [payTxn EXCEPT ![o] = ProviderTxn(provider, o)]
          /\ payRaw' = [payRaw EXCEPT ![o] = [NoRaw EXCEPT !.initiated = TRUE]]
          /\ payRows' = [payRows EXCEPT ![o] = @ + 1]
          /\ last' = Request("initiate", "", <<"order", o>>, HttpOk,
                          "Payment initiated")
          /\ io' = Io("", "ok")
          /\ UNCHANGED <<stock, price, orders, ordTotal, ordStatus, stock0, dec>>

\* ------------------------------------------------------ settlement pieces
\* Variant: the lookup drops its where clause and answers any Payment row.
FindPaymentByTxn_AnyPayment(txn) ==
  LET S == {o \in OrderIds : payStatus[o] # "NONE"}
  IN IF S = {} THEN NoPayment ELSE CHOOSE o \in S : TRUE

\* payment.service.ts:262 findFirst({where: {transactionId}})
FindPaymentByTxn(txn) ==
  LET S == {o \in OrderIds : payStatus[o] # "NONE" /\ payTxn[o] = txn}
  IN IF S = {} THEN NoPayment ELSE CHOOSE o \in S : TRUE

\* Variant: the handler never skips a processed payment.
AlreadyProcessed_Never(status) == FALSE

\* payment.service.ts:283 "Skip if already processed"
AlreadyProcessed(status) == status = "SUCCESS"

\* payment.service.ts:323 / 463  product.stock < item.quantity
InsufficientStock(available, quantity) == available < quantity

\* payment.service.ts:330 / 469  stock: {decrement: item.quantity}
DecrementStock(available, quantity) == available - quantity

\* payment.service.ts:314-342: for each item, re-read the product inside the
\* transaction, throw when short, otherwise decrement.  [ok, stock] after
\* the loop, or at the throw.
RECURSIVE ReduceItems(_, _, _)
ReduceItems(items, i, stk) ==
  IF i > Len(items) THEN [ok |-> TRUE, stock |-> stk]
  ELSE LET pr == items[i].productId
           q == items[i].quantity
       IN IF InsufficientStock(stk[pr], q)
          THEN [ok |-> FALSE, stock |-> stk]
          ELSE ReduceItems(items, i + 1,
                           [stk EXCEPT ![pr] = DecrementStock(@, q)])

\* payment.service.ts:444-482 reduceStock: the order is read once with its
\* items' products (snapshot read), each item is compared with that read and
\* decremented.
RECURSIVE ReduceStockLoop(_, _, _, _)
ReduceStockLoop(items, i, read, stk) ==
  IF i > Len(items) THEN [ok |-> TRUE, stock |-> stk]
  ELSE LET pr == items[i].productId
           q == items[i].quantity
       IN IF InsufficientStock(read[pr], q)
          THEN [ok |-> FALSE, stock |-> stk]
          ELSE ReduceStockLoop(items, i + 1, read,
                               [stk EXCEPT ![pr] = DecrementStock(@, q)])

reduceStock(db, o) == ReduceStockLoop(orders[o], 1, db.stock, db.stock)

\* Variant: the statements run outside a transaction, so the writes made
\* before a throw stay.
Transaction_NoRollback(before, run) == run.db

\* prisma.$transaction: the callback's writes are committed when it returns
\* and all of them are discarded when it throws.
Transaction(before, run) == IF run.ok THEN run.db ELSE before

\* Variant: the callback forgets tx.order.update.
SuccessTxBody_NoOrderUpdate(db, o) ==
  LET d1 == [db EXCEPT !.payStatus[o] = "SUCCESS",
                       !.payRaw[o].webhookEvent = "payment_intent.succeeded"]
      r == ReduceItems(orders[o], 1, d1.stock)
  IN [ok |-> r.ok, db |-> [d1 EXCEPT !.stock = r.stock]]

\* Variant: the callback leaves a CANCELED order and its stock alone.
SuccessTxBody_KeepsCanceled(db, o) ==
  LET d1 == [db EXCEPT !.payStatus[o] = "SUCCESS",
                       !.payRaw[o].webhookEvent = "payment_intent.succeeded"]
      d2 == [d1 EXCEPT !.ordStatus[o] = "PAID"]
      r == ReduceItems(orders[o], 1, d2.stock)
  IN IF db.ordStatus[o] = "CANCELED"
     THEN [ok |-> TRUE, db |-> d1]
     ELSE [ok |-> r.ok, db |-> [d2 EXCEPT !.stock = r.stock]]

\* payment.service.ts:289-347, the callback of handlePaymentSuccess.
SuccessTxBody(db, o) ==
  LET d1 == [db EXCEPT !.payStatus[o] = "SUCCESS",
                       !.payRaw[o].webhookEvent = "payment_intent.succeeded"]
      d2 == [d1 EXCEPT !.ordStatus[o] = "PAID"]
      r == ReduceItems(orders[o], 1, d2.stock)
  IN [ok |-> r.ok, db |-> [d2 EXCEPT !.stock = r.stock]]

\* Variant: the callback also returns the first item's units to the stock.
CanceledTxBody_Restocks(db, o) ==
  LET d1 == [db EXCEPT !.payStatus[o] = "FAILED",
                       !.payRaw[o].webhookEvent = "payment_intent.canceled"]
      d2 == [d1 EXCEPT !.ordStatus[o] = "CANCELED"]
      item == orders[o][1]
  IN [ok |-> TRUE,
      db |-> [d2 EXCEPT !.stock[item.productId] = @ + item.quantity]]

\* Variant: the callback forgets tx.order.update.
CanceledTxBody_NoOrderUpdate(db, o) ==
  [ok |-> TRUE,
   db |-> [db EXCEPT !.payStatus[o] = "FAILED",
                     !.payRaw[o].webhookEvent = "payment_intent.canceled"]]

\* payment.service.ts:399-418, the callback of handlePaymentCanceled.
CanceledTxBody(db, o) ==
  LET d1 == [db EXCEPT !.payStatus[o] = "FAILED",
                       !.payRaw[o].webhookEvent = "payment_intent.canceled"]
      d2 == [d1 EXCEPT !.ordStatus[o] = "CANCELED"]
  IN [ok |-> TRUE, db |-> d2]

\* payment.service.ts:113-154, the callback of verifyPayment.
VerifyTxBody(db, o, verified, trx) ==
  LET d1 == [db EXCEPT !.payStatus[o] = IF verified THEN "SUCCESS" ELSE "FAILED",
                       !.payTxn[o] = IF trx # NoTxn THEN trx ELSE @,
                       !.payRaw[o].verificationResult =
                          IF verified THEN "verified" ELSE "unverified",
                       !.payRaw[o].verifiedAt = TRUE]
  IN IF ~verified THEN [ok |-> TRUE, db |-> d1]
     ELSE LET d2 == [d1 EXCEPT !.ordStatus[o] = "PAID"]
          IN IF payProvider[o] = "BKASH"
             THEN LET r == reduceStock(d2, o)
                  IN [ok |-> r.ok, db |-> [d2 EXCEPT !.stock = r.stock]]
             ELSE [ok |-> TRUE, db |-> d2]

\* Writes a committed Db value back to the variables; the history variable
\* dec counts the settlement rounds that changed stock on behalf of order o.
Commit(db, o) ==
  /\ stock' = db.stock
  /\ payStatus' = db.payStatus
  /\ ordStatus' = db.ordStatus
  /\ payTxn' = db.payTxn
  /\ payRaw' = db.payRaw
  /\ dec' = IF o # NoPayment /\ db.stock # stock
            THEN [dec EXCEPT ![o] = @ + 1] ELSE dec
  /\ UNCHANGED <<price, orders, ordTotal, payProvider, payRows, stock0>>

\* ------------------------------------------- PaymentService webhook handlers
Answer(type, txn, http, log) == Request("webhook", type, txn, http, log)

\* Variant: the response body always carries the line logged.
ResponseBody_Message(r) == r.log

\* What the webhook caller reads in the response body.  The controller
\* answers {received: true} (payment.service.ts:632); an error thrown on the
\* way is answered by errorMiddleware (part_009:12-21) with message:
\* error.message, which is what log holds for a refused request.  The message
\* "Insufficient stock" stands for the text thrown at payment.service.ts:324,
\* which names the product and its available and required quantities.
ResponseBody(r) == IF r.http = HttpOk THEN "received" ELSE r.log

\* payment.service.ts:258-348
handlePaymentSuccess(txn) ==
  LET o == FindPaymentByTxn(txn)
      type == "payment_intent.succeeded"
  IN IF o = NoPayment
     THEN /\ last' = Answer(type, txn, HttpOk, "Payment not found for transaction")
          /\ UNCHANGED <<dbVars, stock0, dec>>
     ELSE IF AlreadyProcessed(payStatus[o])
     THEN /\ last' = Answer(type, txn, HttpOk, "Payment already processed")
          /\ UNCHANGED <<dbVars, stock0, dec>>
     ELSE LET run == SuccessTxBody(Db, o)
          IN /\ Commit(Transaction(Db, run), o)
             /\ last' = IF run.ok
                        THEN Answer(type, txn, HttpOk, "Payment successful")
                        ELSE Answer(type, txn, HttpPaymentError, "Insufficient stock")

\* Variant: the failed handler cancels the order as the canceled handler does.
FailedUpdate_CancelsOrder(db, o) ==
  [db EXCEPT !.payStatus[o] = "FAILED", !.ordStatus[o] = "CANCELED",
             !.payRaw[o].webhookEvent = "payment_intent.payment_failed"]

\* payment.service.ts:365-378, the prisma.payment.update of handlePaymentFailed.
FailedUpdate(db, o) ==
  [db EXCEPT !.payStatus[o] = "FAILED",
             !.payRaw[o].webhookEvent = "payment_intent.payment_failed"]

\* payment.service.ts:353-381
handlePaymentFailed(txn) ==
  LET o == FindPaymentByTxn(txn)
      type == "payment_intent.payment_failed"
  IN IF o = NoPayment
     THEN /\ last' = Answer(type, txn, HttpOk, "Payment not found for transaction")
          /\ UNCHANGED <<dbVars, stock0, dec>>
     ELSE /\ last' = Answer(type, txn, HttpOk, "Payment failed")
          /\ Commit(FailedUpdate(Db, o), o)

\* payment.service.ts:386-421
handlePaymentCanceled(txn) ==
  LET o == FindPaymentByTxn(txn)
      type == "payment_intent.canceled"
  IN IF o = NoPayment
     THEN /\ last' = Answer(type, txn, HttpOk, "Payment not found for transaction")
          /\ UNCHANGED <<dbVars, stock0, dec>>
     ELSE /\ last' = Answer(type, txn, HttpOk, "Payment canceled")
          /\ Commit(Transaction(Db, CanceledTxBody(Db, o)), o)

\* Variant: constructPaymentIntent answers the event whatever the signature.
SignatureVerifies_Always(sig) == TRUE

\* part_002:346-355 stripe.webhooks.constructEvent(payload, signature,
\* webhookSecret) returns the event when the header is a signature of this
\* payload under the webhook secret, and throws otherwise (a signature made
\* with another secret, or over another payload).
SignatureVerifies(sig) == sig = "valid"

\* PaymentController.webhook (payment.service.ts:616-633) followed by
\* PaymentService.handleStripeWebhook (223-252); an error thrown on the way
\* is answered by errorMiddleware with the error's statusCode.
\* sig: the stripe-signature header is "missing", or constructPaymentIntent
\* finds it "invalid" or "valid" for the payload.
StripeWebhook(type, txn, sig) ==
  /\ UNCHANGED <<workerVars, tokenVars, catalogVars>>
  /\ IF sig = "missing" THEN UNCHANGED factoryVars ELSE UseStrategy(StripeName)
  /\ io' = Io(sig, "none")
  /\ IF sig = "missing"
     THEN /\ last' = Answer("", txn, HttpBadRequest, "Missing stripe-signature header")
          /\ UNCHANGED <<dbVars, stock0, dec>>
     ELSE IF ~SignatureVerifies(sig)
     THEN /\ last' = Answer("", txn, HttpPaymentError, "Invalid webhook signature")
          /\ UNCHANGED <<dbVars, stock0, dec>>
     ELSE IF type = "payment_intent.succeeded" THEN handlePaymentSuccess(txn)
     ELSE IF type = "payment_intent.payment_failed" THEN handlePaymentFailed(txn)
     ELSE IF type = "payment_intent.canceled" THEN handlePaymentCanceled(txn)
     ELSE /\ last' = Answer(type, txn, HttpOk, "Unhandled event type")
          /\ UNCHANGED <<dbVars, stock0, dec>>

\* ---------------------------------------------- PaymentService.verifyPayment
\* What strategy.verifyPayment can answer for the Payment of order o.
\* Stripe (part_002:284-304) answers the intent's status and own id when the
\* API answered; bKash (part_002:130-163) answers the execute call's status
\* with the trxID or without one.  When the remote call throws (the API is
\* unreachable, or bKash authentication fails) both catch the error and
\* answer verified = false without an id.
VerifyAnswers(o) ==
  LET id == IF payProvider[o] = "BKASH" THEN BkashTrx(o) ELSE payTxn[o]
      answered ==
        { [verified |-> TRUE, transactionId |-> id, remote |-> "ok"],
          [verified |-> FALSE, transactionId |-> id, remote |-> "ok"] }
        \cup (IF payProvider[o] = "BKASH"
              THEN {[verified |-> FALSE, transactionId |-> NoTxn, remote |-> "ok"]}
              ELSE {})
  IN answered \cup
       {[verified |-> FALSE, transactionId |-> NoTxn, remote |-> "unreachable"]}

\* payment.service.ts:82-163
VerifyPayment(o, answer) ==
  /\ UNCHANGED <<workerVars, tokenVars, catalogVars>>
  /\ IF payStatus[o] = "NONE"
     THEN UNCHANGED factoryVars
     ELSE UseStrategy(ToLowerCase(NameOf(payProvider[o])))
  /\ IF payStatus[o] = "NONE"
     THEN /\ last' = Request("verify", "", <<"payment", o>>, HttpNotFound,
                             "Payment not found")
          /\ io' = NoIo
          /\ UNCHANGED <<dbVars, stock0, dec>>
     ELSE LET run == VerifyTxBody(Db, o, answer.verified, answer.transactionId)
              type == IF answer.verified THEN "verified" ELSE "unverified"
          IN /\ Commit(Transaction(Db, run), o)
             /\ io' = Io("", answer.remote)
             /\ last' = IF run.ok
                        THEN Request("verify", type, <<"payment", o>>, HttpOk,
                                     "Payment verified")
                        ELSE Request("verify", type, <<"payment", o>>,
                                     HttpPaymentError, "Insufficient stock")

\* --------------------------------------------------------- specifications
Signatures == {"missing", "invalid", "valid"}

CreateOrderStep == \E cart \in Carts : CreateOrder(cart) /\ UNCHANGED workerVars

InitiateStep ==
  \E o \in OrderIds, provider \in {"stripe", "bkash"}, providerOk \in BOOLEAN :
    InitiatePayment(o, provider, providerOk)

WebhookStep ==
  \E type \in EventTypes, txn \in WebhookTxns, sig \in Signatures :
    StripeWebhook(type, txn, sig)

SucceededStep ==
  \E txn \in WebhookTxns, sig \in Signatures :
    StripeWebhook("payment_intent.succeeded", txn, sig)

VerifyStep ==
  \E o \in OrderIds : \E answer \in VerifyAnswers(o) : VerifyPayment(o, answer)

\* The two settlement paths, requests handled one after another: orders,
\* payments, payment_intent.succeeded notifications and manual verification.
Next == CreateOrderStep \/ InitiateStep \/ SucceededStep \/ VerifyStep
Spec == Init /\ [][Next]_vars

\* Orders, payments and webhook notifications only.
NextHooks == CreateOrderStep \/ InitiateStep \/ WebhookStep
SpecHooks == Init /\ [][NextHooks]_vars

\* Orders, payments and payment_intent.succeeded notifications only.
NextSucc == CreateOrderStep \/ InitiateStep \/ SucceededStep
SpecSucc == Init /\ [][NextSucc]_vars

\* ------------------------------------------------ concurrent settlements
\* handlePaymentSuccess of concurrent webhook requests, one database
\* statement per step.  PostgreSQL read committed: a statement reads the rows
\* committed when it runs (and the transaction's own writes); an UPDATE locks
\* its row until the transaction ends, and a second UPDATE of a locked row
\* waits and is then applied to the row as committed.
ValidCarts == {c \in Carts : AllProductsFound(c)}

\* Two orders created and their Stripe payments initiated, nothing settled.
InitConc ==
  /\ stock \in [Products -> (MaxStock - 1)..MaxStock]
  /\ stock0 = stock
  /\ price = [pr \in Products |-> Price(pr)]
  /\ \E carts \in [OrderIds -> ValidCarts] :
       orders = [o \in OrderIds |-> OrderItems(carts[o], price)]
  /\ \A o \in OrderIds : CartInStock(orders[o], stock)
  /\ ordTotal = [o \in OrderIds |-> CartTotal(orders[o], 1)]
  /\ ordStatus = [o \in OrderIds |-> "PENDING"]
  /\ payStatus = [o \in OrderIds |-> "PENDING"]
  /\ payProvider = [o \in OrderIds |-> "STRIPE"]
  /\ payTxn = [o \in OrderIds |-> Intent(o)]
  /\ payRaw = [o \in OrderIds |-> [NoRaw EXCEPT !.initiated = TRUE]]
  /\ dec = [o \in OrderIds |-> 0]
  /\ last = Request("initiate", "", <<"order", 2>>, HttpOk, "Payment initiated")
  /\ io = Io("", "ok")
  /\ strategies = CachedAfter(<<StripeName>>).strategies
  /\ made = CachedAfter(<<StripeName>>).made
  /\ payRows = [o \in OrderIds |-> IF payStatus[o] = "NONE" THEN 0 ELSE 1]
  /\ catParent = [c \in Categories |->
                    IF c = ProductCategory THEN NoParent ELSE Absent]
  /\ catTree = NoTree
  /\ prodCache = [pr \in Products |-> NotCached]
  /\ token = NoToken
  /\ tokenExpiry = 0
  /\ now = 0
  /\ pc = [w \in Workers |-> "idle"]
  /\ snap = [w \in Workers |-> NoPayment]
  /\ cursor = [w \in Workers |-> 0]

InTx(w) == pc[w] \in {"check", "decrement"}

\* The items of the order whose stock worker w has decremented in its open
\* transaction, and the product rows it holds locked.
Done(w) == IF InTx(w) THEN SubSeq(orders[snap[w]], 1, cursor[w] - 1) ELSE <<>>
Held(w) == {Done(w)[i].productId : i \in 1..Len(Done(w))}

RECURSIVE PendingSum(_, _, _)
PendingSum(items, i, pr) ==
  IF i > Len(items) THEN 0
  ELSE (IF items[i].productId = pr THEN items[i].quantity ELSE 0)
       + PendingSum(items, i + 1, pr)
Pending(w, pr) == PendingSum(Done(w), 1, pr)

\* payment.service.ts:262-286: the lookup and the status check, made before
\* the transaction is opened.
W_Lookup(w, txn) ==
  /\ pc[w] = "idle"
  /\ UNCHANGED procVars
  /\ LET o == FindPaymentByTxn(txn)
         type == "payment_intent.succeeded"
     IN IF o = NoPayment
        THEN /\ last' = Answer(type, txn, HttpOk, "Payment not found for transaction")
             /\ io' = Io("valid", "none")
             /\ UNCHANGED <<dbVars, stock0, dec, workerVars>>
        ELSE IF AlreadyProcessed(payStatus[o])
        THEN /\ last' = Answer(type, txn, HttpOk, "Payment already processed")
             /\ io' = Io("valid", "none")
             /\ UNCHANGED <<dbVars, stock0, dec, workerVars>>
        ELSE /\ pc' = [pc EXCEPT ![w] = "update"]
             /\ snap' = [snap EXCEPT ![w] = o]
             /\ UNCHANGED <<dbVars, stock0, dec, last, io, cursor>>

\* payment.service.ts:291-311: tx.payment.update and tx.order.update lock the
\* Payment and Order rows; they wait while another transaction holds them.
W_UpdateRows(w) ==
  /\ pc[w] = "update"
  /\ UNCHANGED procVars
  /\ \A v \in Workers \ {w} : ~(InTx(v) /\ snap[v] = snap[w])
  /\ pc' = [pc EXCEPT ![w] = "check"]
  /\ cursor' = [cursor EXCEPT ![w] = 1]
  /\ UNCHANGED <<dbVars, stock0, dec, last, io, snap>>

\* payment.service.ts:315-327: tx.product.findUnique and the stock check; a
\* throw rolls the transaction back.
W_CheckItem(w) ==
  /\ pc[w] = "check"
  /\ cursor[w] <= Len(orders[snap[w]])
  /\ UNCHANGED procVars
  /\ LET item == orders[snap[w]][cursor[w]]
         seen == DecrementStock(stock[item.productId], Pending(w, item.productId))
     IN IF InsufficientStock(seen, item.quantity)
        THEN /\ pc' = [pc EXCEPT ![w] = "idle"]
             /\ snap' = [snap EXCEPT ![w] = NoPayment]
             /\ cursor' = [cursor EXCEPT ![w] = 0]
             /\ last' = Answer("payment_intent.succeeded", payTxn[snap[w]],
                               HttpPaymentError, "Insufficient stock")
             /\ io' = Io("valid", "none")
             /\ UNCHANGED <<dbVars, stock0, dec>>
        ELSE /\ pc' = [pc EXCEPT ![w] = "decrement"]
             /\ UNCHANGED <<dbVars, stock0, dec, last, io, snap, cursor>>

\* payment.service.ts:330-337: tx.product.update({stock: {decrement}}) locks
\* the Product row; it waits while another transaction holds it.
W_Decrement(w) ==
  /\ pc[w] = "decrement"
  /\ UNCHANGED procVars
  /\ LET item == orders[snap[w]][cursor[w]]
     IN \A v \in Workers \ {w} : item.productId \notin Held(v)
  /\ pc' = [pc EXCEPT ![w] = "check"]
  /\ cursor' = [cursor EXCEPT ![w] = @ + 1]
  /\ UNCHANGED <<dbVars, stock0, dec, last, io, snap>>

\* payment.service.ts:344-347: the callback returns and the transaction
\* commits its writes together.
W_Commit(w) ==
  /\ pc[w] = "check"
  /\ cursor[w] > Len(orders[snap[w]])
  /\ UNCHANGED procVars
  /\ LET o == snap[w]
     IN /\ payStatus' = [payStatus EXCEPT ![o] = "SUCCESS"]
        /\ ordStatus' = [ordStatus EXCEPT ![o] = "PAID"]
        /\ stock' = [pr \in Products |-> DecrementStock(stock[pr], Pending(w, pr))]
        /\ dec' = [dec EXCEPT ![o] = @ + 1]
        /\ payRaw' = [payRaw EXCEPT
                        ![o].webhookEvent = "payment_intent.succeeded"]
        /\ last' = Answer("payment_intent.succeeded", payTxn[o], HttpOk,
                          "Payment successful")
        /\ io' = Io("valid", "none")
  /\ pc' = [pc EXCEPT ![w] = "idle"]
  /\ snap' = [snap EXCEPT ![w] = NoPayment]
  /\ cursor' = [cursor EXCEPT ![w] = 0]
  /\ UNCHANGED <<price, orders, ordTotal, payProvider, payRows, payTxn, stock0>>

LookupStep == \E w \in Workers, txn \in WebhookTxns : W_Lookup(w, txn)
UpdateRowsStep == \E w \in Workers : W_UpdateRows(w)
CheckItemStep == \E w \in Workers : W_CheckItem(w)
DecrementStep == \E w \in Workers : W_Decrement(w)
CommitStep == \E w \in Workers : W_Commit(w)

NextConc ==
  LookupStep \/ UpdateRowsStep \/ CheckItemStep \/ DecrementStep \/ CommitStep
SpecConc == InitConc /\ [][NextConc]_vars

\* ---------------------------------------------- PaymentService.refundPayment
\* Variant: every Payment that left PENDING can be refunded.
Refundable_NotPending(status) == status # "PENDING"

\* payment.service.ts:179  payment.status !== PaymentStatus.SUCCESS throws
Refundable(status) == status = "SUCCESS"

\* The amounts a refund request carries: none, or a part of the total.
PartialAmount == 1
RefundAmounts == {NoAmount, PartialAmount}

\* payment.service.ts:208  amount || Number(payment.order.totalAmount)
RefundAmount(amount, total) == IF amount # NoAmount THEN amount ELSE total

\* What strategy.refundPayment can answer: Stripe (part_002:361-387) returns
\* the refund or throws; bKash (part_002:169-209) can also return
\* success = false.
RefundResults(o) ==
  IF payProvider[o] = "BKASH" THEN {"ok", "declined", "threw"} ELSE {"ok", "threw"}

\* Variant: the refund also cancels the order.
RefundUpdate_CancelsOrder(db, o, amount) ==
  [db EXCEPT !.payStatus[o] = "FAILED",
             !.ordStatus[o] = "CANCELED",
             !.payRaw[o].refundId = RefundId(o),
             !.payRaw[o].refundedAt = TRUE,
             !.payRaw[o].refundAmount = RefundAmount(amount, ordTotal[o])]

\* payment.service.ts:200-212, the prisma.payment.update of refundPayment.
RefundUpdate(db, o, amount) ==
  [db EXCEPT !.payStatus[o] = "FAILED",
             !.payRaw[o].refundId = RefundId(o),
             !.payRaw[o].refundedAt = TRUE,
             !.payRaw[o].refundAmount = RefundAmount(amount, ordTotal[o])]

\* payment.service.ts:169-217.  Every Payment row carries a transactionId, so
\* the check of line 183 never throws.
RefundPayment(o, amount, result) ==
  LET type == IF amount = NoAmount THEN "full" ELSE "partial"
      Refund(http, log) == Request("refund", type, <<"payment", o>>, http, log)
  IN /\ UNCHANGED <<workerVars, tokenVars, catalogVars>>
     /\ IF payStatus[o] = "NONE" \/ ~Refundable(payStatus[o])
        THEN UNCHANGED factoryVars
        ELSE UseStrategy(ToLowerCase(NameOf(payProvider[o])))
     /\ IF payStatus[o] = "NONE"
        THEN /\ last' = Refund(HttpNotFound, "Payment not found")
             /\ io' = NoIo
             /\ UNCHANGED <<dbVars, stock0, dec>>
        ELSE IF ~Refundable(payStatus[o])
        THEN /\ last' = Refund(HttpPaymentError, "Can only refund successful payments")
             /\ io' = NoIo
             /\ UNCHANGED <<dbVars, stock0, dec>>
        ELSE IF result # "ok"
        THEN /\ last' = Refund(HttpPaymentError, "Refund processing failed")
             /\ io' = Io("", result)
             /\ UNCHANGED <<dbVars, stock0, dec>>
        ELSE /\ Commit(RefundUpdate(Db, o, amount), o)
             /\ last' = Refund(HttpOk, "Payment refunded")
             /\ io' = Io("", "ok")

RefundStep ==
  \E o \in OrderIds, amount \in RefundAmounts :
    \E result \in RefundResults(o) : RefundPayment(o, amount, result)

\* Orders, payments, payment_intent.succeeded notifications and refunds.
NextRefund == CreateOrderStep \/ InitiateStep \/ SucceededStep \/ RefundStep
SpecRefund == Init /\ [][NextRefund]_vars

\* --------------------------------------------- OrderService.updateOrderStatus
OrderStatuses == {"PENDING", "PAID", "CANCELED"}

\* Variant: a canceled order can be reopened.
ValidTransitions_Reopen(status) ==
  IF status = "PENDING" THEN {"PAID", "CANCELED"}
  ELSE IF status = "PAID" THEN {"PENDING", "CANCELED"}
  ELSE {"PENDING"}

\* order.service.ts:166-170 validTransitions
ValidTransitions(status) ==
  IF status = "PENDING" THEN {"PAID", "CANCELED"}
  ELSE IF status = "PAID" THEN {"PENDING", "CANCELED"}
  ELSE {}

\* order.service.ts:162-189
UpdateOrderStatus(o, status) ==
  LET Update(http, log) == Request("updateStatus", status, <<"order", o>>, http, log)
  IN /\ UNCHANGED <<workerVars, procVars>>
     /\ io' = NoIo
     /\ IF ordStatus[o] = "NONE"
        THEN /\ last' = Update(HttpNotFound, "Order not found")
             /\ UNCHANGED <<dbVars, stock0, dec>>
        ELSE IF status \notin ValidTransitions(ordStatus[o])
        THEN /\ last' = Update(HttpBadRequest, "Cannot transition order")
             /\ UNCHANGED <<dbVars, stock0, dec>>
        ELSE /\ ordStatus' = [ordStatus EXCEPT ![o] = status]
             /\ last' = Update(HttpOk, "Order status updated")
             /\ UNCHANGED <<stock, price, orders, ordTotal, payStatus, payProvider, payRows,
                            payTxn, payRaw, stock0, dec>>

UpdateStatusStep ==
  \E o \in OrderIds, status \in OrderStatuses : UpdateOrderStatus(o, status)

\* Orders and the administrator's status updates.
NextAdmin == CreateOrderStep \/ UpdateStatusStep
SpecAdmin == Init /\ [][NextAdmin]_vars

\* ---------------------------------------------- ProductService.updateProduct
\* The Product row as prisma.product.findUnique answers it.
ProductRow(pr) == [present |-> TRUE, stock |-> stock[pr], price |-> price[pr]]

\* part_006:120-140 getProductById: the cache entry is answered when there is
\* one; otherwise the row is read, put into the cache and answered.
GetProductById(cached, row) ==
  IF cached.present THEN [product |-> cached, cache |-> cached]
  ELSE [product |-> row, cache |-> row]

\* part_006:178-198 with data = {stock}: the product is fetched through
\* getProductById, a negative stock is refused, otherwise the product row is
\* updated and the product's cache entry deleted.
UpdateProductStock(pr, n) ==
  /\ UNCHANGED <<workerVars, factoryVars, tokenVars, catParent, catTree>>
  /\ io' = NoIo
  /\ IF n < 0
     THEN /\ last' = Request("updateProduct", "", <<pr, n>>, HttpBadRequest,
                             "Stock cannot be negative")
          /\ prodCache' = [prodCache EXCEPT
                             ![pr] = GetProductById(@, ProductRow(pr)).cache]
          /\ UNCHANGED <<dbVars, stock0, dec>>
     ELSE /\ stock' = [stock EXCEPT ![pr] = n]
          /\ prodCache' = [prodCache EXCEPT ![pr] = NotCached]
          /\ last' = Request("updateProduct", "", <<pr, n>>, HttpOk,
                             "Product updated")
          /\ UNCHANGED <<price, orders, ordTotal, ordStatus, payStatus, payProvider, payRows,
                         payTxn, payRaw, stock0, dec>>

\* --------------------------------------------- retry after an aborted attempt
\* The stock-reduction rounds after which the administrator stops restocking.
MaxRestockRounds == 1

\* Order 1 was created and its payment initiated, the stock then fell below
\* the order's quantities, and the settlement attempt just made was aborted
\* for insufficient stock: by the success notification for a Stripe payment,
\* by a verified manual verification for a bKash payment.
InitRetry ==
  /\ stock \in [Products -> 0..MaxStock]
  /\ stock0 = stock
  /\ price = [pr \in Products |-> Price(pr)]
  /\ \E cart \in ValidCarts :
       /\ ~CartInStock(cart, stock)
       /\ orders = [o \in OrderIds |->
                      IF o = 1 THEN OrderItems(cart, price) ELSE <<>>]
  /\ ordTotal = [o \in OrderIds |-> CartTotal(orders[o], 1)]
  /\ ordStatus = [o \in OrderIds |-> IF o = 1 THEN "PENDING" ELSE "NONE"]
  /\ payStatus = [o \in OrderIds |-> IF o = 1 THEN "PENDING" ELSE "NONE"]
  /\ payProvider \in {[o \in OrderIds |-> IF o = 1 THEN p ELSE "NONE"] :
                       p \in {"STRIPE", "BKASH"}}
  /\ payTxn = [o \in OrderIds |->
                 IF o # 1 THEN NoTxn
                 ELSE IF payProvider[1] = "BKASH" THEN BkashId(1) ELSE Intent(1)]
  /\ payRaw = [o \in OrderIds |->
                 IF o = 1 THEN [NoRaw EXCEPT !.initiated = TRUE] ELSE NoRaw]
  /\ dec = [o \in OrderIds |-> 0]
  /\ IF payProvider[1] = "BKASH"
     THEN /\ last = Request("verify", "verified", <<"payment", 1>>,
                            HttpPaymentError, "Insufficient stock")
          /\ io = Io("", "ok")
     ELSE /\ last = Answer("payment_intent.succeeded", Intent(1),
                           HttpPaymentError, "Insufficient stock")
          /\ io = Io("valid", "none")
  /\ LET used == CachedAfter(<<IF payProvider[1] = "BKASH" THEN BkashName
                               ELSE StripeName>>)
     IN strategies = used.strategies /\ made = used.made
  /\ payRows = [o \in OrderIds |-> IF payStatus[o] = "NONE" THEN 0 ELSE 1]
  /\ catParent = [c \in Categories |->
                    IF c = ProductCategory THEN NoParent ELSE Absent]
  /\ catTree = NoTree
  /\ prodCache = [pr \in Products |-> NotCached]
  /\ token = NoToken
  /\ tokenExpiry = 0
  /\ now = 0
  /\ pc = [w \in Workers |-> "idle"]
  /\ snap = [w \in Workers |-> NoPayment]
  /\ cursor = [w \in Workers |-> 0]

RestockStep ==
  \E pr \in Products, n \in -1..MaxStock :
    /\ \A o \in OrderIds : dec[o] < MaxRestockRounds
    /\ UpdateProductStock(pr, n)

\* Restocking, success notifications and manual verification after the
\* aborted attempt.
NextRetry == RestockStep \/ SucceededStep \/ VerifyStep
SpecRetry == InitRetry /\ [][NextRetry]_vars

\* --------------------------------------------------- product price updates
\* The price an administrator raises a product to.
MaxPrice == 4

\* ProductService.updateProduct with data {price: p} (part_006:178-198): a
\* price of 0 or less is rejected, otherwise the Product row takes it.
UpdateProductPrice(pr, p) ==
  /\ UNCHANGED <<workerVars, factoryVars, tokenVars, catParent, catTree>>
  /\ io' = NoIo
  /\ IF p <= 0
     THEN /\ last' = Request("updateProduct", "price", <<pr, p>>, HttpBadRequest,
                             "Price must be greater than 0")
          /\ prodCache' = [prodCache EXCEPT
                             ![pr] = GetProductById(@, ProductRow(pr)).cache]
          /\ UNCHANGED <<dbVars, stock0, dec>>
     ELSE /\ price' = [price EXCEPT ![pr] = p]
          /\ prodCache' = [prodCache EXCEPT ![pr] = NotCached]
          /\ last' = Request("updateProduct", "price", <<pr, p>>, HttpOk,
                             "Product updated")
          /\ UNCHANGED <<stock, orders, ordTotal, ordStatus, payStatus, payProvider, payRows,
                         payTxn, payRaw, stock0, dec>>

\* The administrator reprices a product; a rejected price is tried too.
RepriceStep ==
  \E pr \in Products, p \in {0, MaxPrice} : UpdateProductPrice(pr, p)

UpdatePriceStep == \E pr \in Products : UpdateProductPrice(pr, MaxPrice)

\* ------------------------------------------------------------ cancelOrder
\* Variant: any order that is not CANCELED may be cancelled.
Cancellable_NotCanceled(status) == status # "CANCELED"

\* order.service.ts:196: only a PENDING order may be cancelled.
Cancellable(status) == status = "PENDING"

\* OrderService.cancelOrder (order.service.ts:193-214) behind
\* OrderController.cancel (part_004:78-86).
CancelOrder(o) ==
  LET Cancel(http, log) == Request("cancel", "", <<"order", o>>, http, log)
  IN /\ UNCHANGED <<workerVars, procVars>>
     /\ io' = NoIo
     /\ IF ordStatus[o] = "NONE"
        THEN /\ last' = Cancel(HttpNotFound, "Order not found")
             /\ UNCHANGED <<dbVars, stock0, dec>>
        ELSE IF ~Cancellable(ordStatus[o])
        THEN /\ last' = Cancel(HttpBadRequest, "Cannot cancel order")
             /\ UNCHANGED <<dbVars, stock0, dec>>
        ELSE /\ ordStatus' = [ordStatus EXCEPT ![o] = "CANCELED"]
             /\ last' = Cancel(HttpOk, "Order cancelled")
             /\ UNCHANGED <<stock, price, orders, ordTotal, payStatus, payProvider, payRows,
                            payTxn, payRaw, stock0, dec>>

CancelStep == \E o \in OrderIds : CancelOrder(o)

\* A Stripe payment the provider accepts, its verified success notification
\* and a full refund.
PayStep == \E o \in OrderIds : InitiatePayment(o, "stripe", TRUE)
SettleStep ==
  \E o \in OrderIds :
    StripeWebhook("payment_intent.succeeded", Intent(o), "valid")
FullRefundStep ==
  \E o \in OrderIds :
    \E result \in RefundResults(o) : RefundPayment(o, NoAmount, result)

\* Orders are created while prices change, then paid, settled, refunded,
\* cancelled and moved by the administrator.
NextTotals ==
  \/ CreateOrderStep
  \/ UpdatePriceStep
  \/ PayStep
  \/ SettleStep
  \/ FullRefundStep
  \/ UpdateStatusStep
  \/ CancelStep
InitTotals == Init /\ stock = [pr \in Products |-> MaxStock]
SpecTotals == InitTotals /\ [][NextTotals]_vars

\* ------------------------------------------- the strategy factory by itself
\* Strategy instances constructed per class before the calls stop.
MaxInstances == 3

\* The names callers pass: the two providers in several letter cases, an
\* unsupported provider, the empty string and a name with a trailing space.
ProviderNames ==
  {"stripe", "STRIPE", "Stripe", "bkash", "BKASH", "bKash", "PayPal", "",
   "stripe "}

\* A call PaymentStrategyFactory.getStrategy(provider) (part_001:29-61): the
\* request records the name given, the instance returned, ValidationError's
\* status when it throws, and the line logged.
GetStrategyCall(provider) ==
  LET g == GetStrategy(NameOf(provider), strategies, made)
      Call(http, log) ==
        Request("getStrategy", provider,
                <<g.strategy.class, g.strategy.id>>, http, log)
  IN /\ \A c \in Classes : g.made[c] <= MaxInstances
     /\ strategies' = g.strategies
     /\ made' = g.made
     /\ last' = IF ~g.ok
                THEN Call(HttpBadRequest,
                          "Unsupported payment provider. Supported providers: stripe, bkash")
                ELSE IF g.made = made
                THEN Call(HttpOk, "Using cached strategy for provider")
                ELSE Call(HttpOk, "payment strategy instantiated")
     /\ io' = NoIo
     /\ UNCHANGED <<dbVars, stock0, dec, tokenVars, catalogVars, workerVars>>

\* PaymentStrategyFactory.clearCache (part_001:67-70).
ClearCache ==
  /\ strategies' = EmptyMap
  /\ last' = Request("clearCache", "", <<"none", 0>>, HttpOk,
                     "Payment strategy cache cleared")
  /\ io' = NoIo
  /\ UNCHANGED <<made, dbVars, stock0, dec, tokenVars, catalogVars, workerVars>>

GetStrategyStep == \E provider \in ProviderNames : GetStrategyCall(provider)

NextFactory == GetStrategyStep \/ ClearCache
SpecFactory == Init /\ [][NextFactory]_vars

\* ------------------------------------------------ the bKash token by itself
\* The clock stops at MaxTime; the provider issues tokens 1..MaxTokens.
MaxTime == 9
MaxTokens == 2

\* response.data.expires_in of a token grant, in minutes: below, at and above
\* the five-minute buffer.
ExpiresIn == {TokenBuffer - 1, TokenBuffer, TokenBuffer + 2}

\* What the token grant call can do: throw (ok = FALSE) or answer with an
\* id_token and its expires_in.
GrantResults ==
  {[ok |-> FALSE, id_token |-> NoToken, expires_in |-> 0]}
    \cup {[ok |-> TRUE, id_token |-> t, expires_in |-> e] :
            t \in 1..MaxTokens, e \in ExpiresIn}

\* BkashPaymentStrategy.getToken (part_002:41-74).  The request records
\* whether the token came from the cache or from a grant, and the token
\* returned.
GetToken(grant) ==
  LET Got(type, tok, http, log) ==
        Request("getToken", type, <<"token", tok>>, http, log)
  IN /\ IF CachedTokenUsable(token, tokenExpiry, now)
        THEN /\ last' = Got("cached", token, HttpOk, "")
             /\ io' = NoIo
             /\ UNCHANGED <<token, tokenExpiry>>
        ELSE IF grant.ok
        THEN /\ token' = grant.id_token
             /\ tokenExpiry' = now + grant.expires_in
             /\ last' = Got("granted", grant.id_token, HttpOk,
                            "bKash token obtained successfully")
             /\ io' = Io("", "ok")
        ELSE /\ last' = Got("", NoToken, HttpPaymentError,
                            "Failed to authenticate with bKash")
             /\ io' = Io("", "unreachable")
             /\ UNCHANGED <<token, tokenExpiry>>
     /\ UNCHANGED <<now, dbVars, stock0, dec, factoryVars, catalogVars, workerVars>>

GetTokenStep == \E grant \in GrantResults : GetToken(grant)

\* A minute passes.
Tick ==
  /\ now < MaxTime
  /\ now' = now + 1
  /\ last' = Request("tick", "", NoTxn, HttpOk, "")
  /\ io' = NoIo
  /\ UNCHANGED <<token, tokenExpiry, dbVars, stock0, dec, factoryVars, catalogVars, workerVars>>

\* The bKash strategy has been constructed by a first use.
InitToken ==
  /\ stock = [pr \in Products |-> MaxStock]
  /\ stock0 = stock
  /\ price = [pr \in Products |-> Price(pr)]
  /\ orders = [o \in OrderIds |-> <<>>]
  /\ ordTotal = [o \in OrderIds |-> 0]
  /\ ordStatus = [o \in OrderIds |-> "NONE"]
  /\ payStatus = [o \in OrderIds |-> "NONE"]
  /\ payProvider = [o \in OrderIds |-> "NONE"]
  /\ payTxn = [o \in OrderIds |-> NoTxn]
  /\ payRaw = [o \in OrderIds |-> NoRaw]
  /\ dec = [o \in OrderIds |-> 0]
  /\ last = Request("start", "", NoTxn, HttpOk, "")
  /\ io = NoIo
  /\ strategies = CachedAfter(<<BkashName>>).strategies
  /\ made = CachedAfter(<<BkashName>>).made
  /\ payRows = [o \in OrderIds |-> IF payStatus[o] = "NONE" THEN 0 ELSE 1]
  /\ catParent = [c \in Categories |->
                    IF c = ProductCategory THEN NoParent ELSE Absent]
  /\ catTree = NoTree
  /\ prodCache = [pr \in Products |-> NotCached]
  /\ token = NoToken
  /\ tokenExpiry = 0
  /\ now = 0
  /\ pc = [w \in Workers |-> "idle"]
  /\ snap = [w \in Workers |-> NoPayment]
  /\ cursor = [w \in Workers |-> 0]

NextToken == GetTokenStep \/ Tick
SpecToken == InitToken /\ [][NextToken]_vars

\* ------------------------------------------ settlement of a cancelled order
\* A verified payment_intent.canceled notification for an order's intent.
CanceledStep ==
  \E o \in OrderIds :
    StripeWebhook("payment_intent.canceled", Intent(o), "valid")

\* Both orders were created and their Stripe payments initiated.  Order 1
\* has then been cancelled: by cancelOrder or updateOrderStatus, which leave
\* its Payment PENDING, or by a canceled notification, which set the Payment
\* FAILED.  Order 2 is still PENDING.
InitOverride ==
  /\ stock \in [Products -> (MaxStock - 1)..MaxStock]
  /\ stock0 = stock
  /\ price = [pr \in Products |-> Price(pr)]
  /\ \E carts \in [OrderIds -> ValidCarts] :
       orders = [o \in OrderIds |-> OrderItems(carts[o], price)]
  /\ \A o \in OrderIds : CartInStock(orders[o], stock)
  /\ ordTotal = [o \in OrderIds |-> CartTotal(orders[o], 1)]
  /\ ordStatus = [o \in OrderIds |-> IF o = 1 THEN "CANCELED" ELSE "PENDING"]
  /\ payProvider = [o \in OrderIds |-> "STRIPE"]
  /\ payTxn = [o \in OrderIds |-> Intent(o)]
  /\ dec = [o \in OrderIds |-> 0]
  /\ \E by \in {"cancel", "updateStatus", "webhook"} :
       IF by = "webhook"
       THEN /\ payStatus = [o \in OrderIds |->
                              IF o = 1 THEN "FAILED" ELSE "PENDING"]
            /\ payRaw = [o \in OrderIds |->
                           IF o = 1
                           THEN [NoRaw EXCEPT
                                   !.initiated = TRUE,
                                   !.webhookEvent = "payment_intent.canceled"]
                           ELSE [NoRaw EXCEPT !.initiated = TRUE]]
            /\ last = Answer("payment_intent.canceled", Intent(1), HttpOk,
                             "Payment canceled")
            /\ io = Io("valid", "none")
       ELSE /\ payStatus = [o \in OrderIds |-> "PENDING"]
            /\ payRaw = [o \in OrderIds |-> [NoRaw EXCEPT !.initiated = TRUE]]
            /\ last = IF by = "cancel"
                      THEN Request("cancel", "", <<"order", 1>>, HttpOk,
                                   "Order cancelled")
                      ELSE Request("updateStatus", "CANCELED", <<"order", 1>>,
                                   HttpOk, "Order status updated")
            /\ io = NoIo
  /\ strategies = CachedAfter(<<StripeName>>).strategies
  /\ made = CachedAfter(<<StripeName>>).made
  /\ payRows = [o \in OrderIds |-> IF payStatus[o] = "NONE" THEN 0 ELSE 1]
  /\ catParent = [c \in Categories |->
                    IF c = ProductCategory THEN NoParent ELSE Absent]
  /\ catTree = NoTree
  /\ prodCache = [pr \in Products |-> NotCached]
  /\ token = NoToken
  /\ tokenExpiry = 0
  /\ now = 0
  /\ pc = [w \in Workers |-> "idle"]
  /\ snap = [w \in Workers |-> NoPayment]
  /\ cursor = [w \in Workers |-> 0]

\* Success and canceled notifications, cancelOrder and the administrator's
\* status updates, from there.
NextOverride == SettleStep \/ CanceledStep \/ CancelStep \/ UpdateStatusStep
SpecOverride == InitOverride /\ [][NextOverride]_vars

\* ------------------------------------------------ every request of the core
\* A verified notification of one of the three handled types for an order's
\* intent.
NotifyStep ==
  \E o \in OrderIds :
    \E type \in {"payment_intent.succeeded", "payment_intent.payment_failed",
                 "payment_intent.canceled"} :
      StripeWebhook(type, Intent(o), "valid")

\* A payment with either provider, which the provider accepts.
PayEitherStep ==
  \E o \in OrderIds, provider \in {"stripe", "bkash"} :
    InitiatePayment(o, provider, TRUE)

\* A manual verification the provider answers, verified or not.
AnsweredVerifyStep ==
  \E o \in OrderIds :
    \E answer \in {a \in VerifyAnswers(o) :
                     a.remote = "ok" /\ a.transactionId # NoTxn} :
      VerifyPayment(o, answer)

\* An order of one unit of pA and two of pB.
CreateTwoItemStep ==
  CreateOrder(<<Item("pA", 1), Item("pB", 2)>>) /\ UNCHANGED workerVars

\* Orders, payments with either provider, notifications, manual verification,
\* refunds, cancelOrder and the administrator's status updates.
NextCore ==
  \/ CreateTwoItemStep
  \/ PayEitherStep
  \/ NotifyStep
  \/ AnsweredVerifyStep
  \/ FullRefundStep
  \/ CancelStep
  \/ UpdateStatusStep
InitCore == Init /\ stock = [pr \in Products |-> MaxStock - 1]
SpecCore == InitCore /\ [][NextCore]_vars

\* ------------------------------------------------- concurrent initiations
\* initiatePayment of concurrent requests, one awaited call per step: the
\* read of the order with its payments, the provider's answer, and
\* prisma.payment.create.  pc holds where the request is and for which
\* provider, snap the order it is for.
CallPc(provider) == IF provider = "bkash" THEN "call bkash" ELSE "call stripe"
CreatePc(p) == IF p = "call bkash" THEN "create bkash" ELSE "create stripe"
ProviderAt(p) == IF p = "create bkash" THEN "bkash" ELSE "stripe"

\* payment.service.ts:21-36: the order is read with its payments, the two
\* checks are made and the strategy is fetched.
I_Read(w, o, provider) ==
  /\ pc[w] = "idle"
  /\ UNCHANGED <<tokenVars, catalogVars, dbVars, stock0, dec, cursor>>
  /\ IF ordStatus[o] = "NONE"
     THEN /\ last' = Request("initiate", "", <<"order", o>>, HttpNotFound,
                             "Order not found")
          /\ io' = NoIo
          /\ UNCHANGED <<factoryVars, pc, snap>>
     ELSE IF PaymentExists(o)
     THEN /\ last' = Request("initiate", "", <<"order", o>>, HttpPaymentError,
                             "Payment already initiated for this order")
          /\ io' = NoIo
          /\ UNCHANGED <<factoryVars, pc, snap>>
     ELSE /\ UseStrategy(NameOf(provider))
          /\ pc' = [pc EXCEPT ![w] = CallPc(provider)]
          /\ snap' = [snap EXCEPT ![w] = o]
          /\ UNCHANGED <<last, io>>

\* payment.service.ts:39-50: strategy.initiatePayment answers.
I_Call(w, providerOk) ==
  /\ pc[w] \in {"call stripe", "call bkash"}
  /\ UNCHANGED <<procVars, dbVars, stock0, dec, cursor>>
  /\ IF ~providerOk
     THEN /\ last' = Request("initiate", "", <<"order", snap[w]>>,
                             HttpPaymentError, "Payment initiation failed")
          /\ io' = Io("", "declined")
          /\ pc' = [pc EXCEPT ![w] = "idle"]
          /\ snap' = [snap EXCEPT ![w] = NoPayment]
     ELSE /\ pc' = [pc EXCEPT ![w] = CreatePc(pc[w])]
          /\ UNCHANGED <<last, io, snap>>

\* payment.service.ts:53-67: prisma.payment.create, which the unique index
\* on orderId refuses when the order already has a Payment row; the error is
\* no AppError and is answered 500 (part_009:26-35).
I_Create(w) ==
  /\ pc[w] \in {"create stripe", "create bkash"}
  /\ UNCHANGED <<procVars, stock0, dec, cursor>>
  /\ pc' = [pc EXCEPT ![w] = "idle"]
  /\ snap' = [snap EXCEPT ![w] = NoPayment]
  /\ io' = Io("", "ok")
  /\ LET o == snap[w]
         provider == ProviderAt(pc[w])
     IN IF ~UniqueOrderId(payRows, o)
        THEN /\ last' = Request("initiate", "", <<"order", o>>,
                                HttpInternalError, "Internal server error")
             /\ UNCHANGED dbVars
        ELSE /\ payRows' = [payRows EXCEPT ![o] = @ + 1]
             /\ IF payRows[o] = 0
                THEN /\ payStatus' = [payStatus EXCEPT ![o] = "PENDING"]
                     /\ payProvider' = [payProvider EXCEPT
                                          ![o] = ProviderEnum(provider)]
                     /\ payTxn' = [payTxn EXCEPT ![o] = ProviderTxn(provider, o)]
                     /\ payRaw' = [payRaw EXCEPT
                                     ![o] = [NoRaw EXCEPT !.initiated = TRUE]]
                ELSE UNCHANGED <<payStatus, payProvider, payTxn, payRaw>>
             /\ last' = Request("initiate", "", <<"order", o>>, HttpOk,
                                "Payment initiated")
             /\ UNCHANGED <<stock, price, orders, ordTotal, ordStatus>>

ReadStep ==
  \E w \in Workers, o \in OrderIds, provider \in {"stripe", "bkash"} :
    I_Read(w, o, provider)
CallStep == \E w \in Workers, providerOk \in BOOLEAN : I_Call(w, providerOk)
CreateStep == \E w \in Workers : I_Create(w)

\* Orders are created and payments initiated by two concurrent requests.
NextInitiate == CreateOrderStep \/ ReadStep \/ CallStep \/ CreateStep
SpecInitiate == Init /\ [][NextInitiate]_vars

\* ------------------------------------------- cancelOrder and a settlement
\* cancelOrder of a request running beside the webhook requests, one
\* database statement per step: getOrderById, then prisma.order.update
\* outside any transaction.
\* order.service.ts:193-200: the order is read and its status checked.
K_Read(w, o) ==
  LET Cancel(http, log) == Request("cancel", "", <<"order", o>>, http, log)
  IN /\ pc[w] = "idle"
     /\ UNCHANGED <<procVars, dbVars, stock0, dec, cursor>>
     /\ IF ordStatus[o] = "NONE"
        THEN /\ last' = Cancel(HttpNotFound, "Order not found")
             /\ io' = NoIo
             /\ UNCHANGED <<pc, snap>>
        ELSE IF ~Cancellable(ordStatus[o])
        THEN /\ last' = Cancel(HttpBadRequest, "Cannot cancel order")
             /\ io' = NoIo
             /\ UNCHANGED <<pc, snap>>
        ELSE /\ pc' = [pc EXCEPT ![w] = "cancel"]
             /\ snap' = [snap EXCEPT ![w] = o]
             /\ UNCHANGED <<last, io>>

\* order.service.ts:202-213: prisma.order.update({where: {id}, data:
\* {status: CANCELED}}) names the row by id alone; it waits while a
\* transaction holds the Order row and then writes.
K_Update(w) ==
  /\ pc[w] = "cancel"
  /\ \A v \in Workers \ {w} : ~(InTx(v) /\ snap[v] = snap[w])
  /\ ordStatus' = [ordStatus EXCEPT ![snap[w]] = "CANCELED"]
  /\ last' = Request("cancel", "", <<"order", snap[w]>>, HttpOk,
                     "Order cancelled")
  /\ io' = NoIo
  /\ pc' = [pc EXCEPT ![w] = "idle"]
  /\ snap' = [snap EXCEPT ![w] = NoPayment]
  /\ UNCHANGED <<procVars, stock, price, orders, ordTotal, payStatus,
                 payProvider, payRows, payTxn, payRaw, stock0, dec, cursor>>

CancelReadStep == \E w \in Workers, o \in OrderIds : K_Read(w, o)
CancelUpdateStep == \E w \in Workers : K_Update(w)

\* Success notifications and cancellations of the paid-for orders, handled
\* by two concurrent requests.
NextCancelRace ==
  \/ LookupStep \/ UpdateRowsStep \/ CheckItemStep \/ DecrementStep
  \/ CommitStep \/ CancelReadStep \/ CancelUpdateStep
SpecCancelRace == InitConc /\ [][NextCancelRace]_vars

\* ------------------------------------------------------ concurrent refunds
\* refundPayment of concurrent requests, one awaited call per step: the read
\* of the Payment, the provider's refund, and prisma.payment.update.  cursor
\* holds the amount the request carries.
\* payment.service.ts:170-190: the Payment is read, the checks are made and
\* the strategy is fetched.
R_Read(w, o, amount) ==
  LET type == IF amount = NoAmount THEN "full" ELSE "partial"
      Refund(http, log) == Request("refund", type, <<"payment", o>>, http, log)
  IN /\ pc[w] = "idle"
     /\ UNCHANGED <<tokenVars, catalogVars, dbVars, stock0, dec>>
     /\ IF payStatus[o] = "NONE"
        THEN /\ last' = Refund(HttpNotFound, "Payment not found")
             /\ io' = NoIo
             /\ UNCHANGED <<factoryVars, workerVars>>
        ELSE IF ~Refundable(payStatus[o])
        THEN /\ last' = Refund(HttpPaymentError,
                               "Can only refund successful payments")
             /\ io' = NoIo
             /\ UNCHANGED <<factoryVars, workerVars>>
        ELSE /\ UseStrategy(ToLowerCase(NameOf(payProvider[o])))
             /\ pc' = [pc EXCEPT ![w] = "refund call"]
             /\ snap' = [snap EXCEPT ![w] = o]
             /\ cursor' = [cursor EXCEPT ![w] = amount]
             /\ UNCHANGED <<last, io>>

\* payment.service.ts:193-197: strategy.refundPayment is invoked and answers.
R_Call(w, result) ==
  LET o == snap[w]
      type == IF cursor[w] = NoAmount THEN "full" ELSE "partial"
  IN /\ pc[w] = "refund call"
     /\ result \in RefundResults(o)
     /\ UNCHANGED <<procVars, dbVars, stock0, dec>>
     /\ IF result # "ok"
        THEN /\ last' = Request("refund", type, <<"payment", o>>,
                                HttpPaymentError, "Refund processing failed")
             /\ io' = Io("", result)
             /\ pc' = [pc EXCEPT ![w] = "idle"]
             /\ snap' = [snap EXCEPT ![w] = NoPayment]
             /\ cursor' = [cursor EXCEPT ![w] = 0]
        ELSE /\ pc' = [pc EXCEPT ![w] = "refund write"]
             /\ UNCHANGED <<last, io, snap, cursor>>

\* payment.service.ts:200-217: prisma.payment.update records the refund.
R_Write(w) ==
  LET o == snap[w]
      type == IF cursor[w] = NoAmount THEN "full" ELSE "partial"
  IN /\ pc[w] = "refund write"
     /\ UNCHANGED procVars
     /\ Commit(RefundUpdate(Db, o, cursor[w]), o)
     /\ last' = Request("refund", type, <<"payment", o>>, HttpOk,
                        "Payment refunded")
     /\ io' = Io("", "ok")
     /\ pc' = [pc EXCEPT ![w] = "idle"]
     /\ snap' = [snap EXCEPT ![w] = NoPayment]
     /\ cursor' = [cursor EXCEPT ![w] = 0]

\* The provider has accepted the refund request w made for its Payment.
ProviderRefunded(w) == pc[w] = "refund write"

RefundReadStep ==
  \E w \in Workers, o \in OrderIds, amount \in RefundAmounts :
    R_Read(w, o, amount)
RefundCallStep ==
  \E w \in Workers, result \in {"ok", "declined", "threw"} : R_Call(w, result)
RefundWriteStep == \E w \in Workers : R_Write(w)

\* The orders' payments are settled by their success notifications and
\* refunded by two concurrent requests.
NextRefundRace ==
  SettleStep \/ RefundReadStep \/ RefundCallStep \/ RefundWriteStep
SpecRefundRace == InitConc /\ [][NextRefundRace]_vars

\* ------------------------------------------------- the product cache
\* ProductService.getProductById (part_006:120-140) behind GET
\* /products/:id: the product answered is the cached one when there is one.
GetProduct(pr) ==
  LET got == GetProductById(prodCache[pr], ProductRow(pr))
  IN /\ prodCache' = [prodCache EXCEPT ![pr] = got.cache]
     /\ last' = Request("getProduct", IF prodCache[pr].present THEN "cache"
                                      ELSE "database",
                        <<pr, got.product.stock>>, HttpOk, "Product retrieved")
     /\ io' = NoIo
     /\ UNCHANGED <<dbVars, stock0, dec, workerVars, factoryVars, tokenVars,
                    catParent, catTree>>

\* ProductService.checkStockAvailability (part_006:214-220): the stock of the
\* product getProductById answers is compared with the quantity.
CheckStockAvailability(pr, quantity) ==
  LET got == GetProductById(prodCache[pr], ProductRow(pr))
  IN /\ prodCache' = [prodCache EXCEPT ![pr] = got.cache]
     /\ last' = Request("checkStock", IF prodCache[pr].present THEN "cache"
                                      ELSE "database",
                        <<pr, quantity>>, HttpOk,
                        IF got.product.stock >= quantity THEN "available"
                        ELSE "unavailable")
     /\ io' = NoIo
     /\ UNCHANGED <<dbVars, stock0, dec, workerVars, factoryVars, tokenVars,
                    catParent, catTree>>

GetProductStep == \E pr \in Products : GetProduct(pr)
CheckStockStep ==
  \E pr \in Products, quantity \in 1..MaxStock :
    CheckStockAvailability(pr, quantity)
SetStockStep ==
  \E pr \in Products, n \in {-1, 0, MaxStock} : UpdateProductStock(pr, n)

\* The catalogue's reads and updates of the products beside the settlement
\* of an order for them.
NextCatalog ==
  \/ GetProductStep \/ CheckStockStep \/ SetStockStep \/ RepriceStep
  \/ CreateTwoItemStep \/ PayStep \/ SettleStep
SpecCatalog == InitCore /\ [][NextCatalog]_vars

\* ------------------------------------------------------ the category tree
CategoryExists(map, c) == map[c] >= NoParent

\* prisma.category.findMany (part_008:190-197): the rows there are.
CategoryRows ==
  [c \in Categories |-> IF CategoryExists(catParent, c) THEN catParent[c]
                        ELSE Absent]

\* buildTree (part_008:215-241): a category is in the tree when the chain of
\* its parents ends at a root; n bounds the length of the chain.
RECURSIVE Rooted(_, _, _)
Rooted(map, c, n) ==
  IF n = 0 \/ ~CategoryExists(map, c) THEN FALSE
  ELSE IF map[c] = NoParent THEN TRUE
  ELSE Rooted(map, map[c], n - 1)

\* c is anc or has anc among its parents.
RECURSIVE Under(_, _, _, _)
Under(map, anc, c, n) ==
  IF c = anc THEN TRUE
  ELSE IF n = 0 \/ ~CategoryExists(map, c) \/ map[c] = NoParent THEN FALSE
  ELSE Under(map, anc, map[c], n - 1)

\* findCategoryInTree and dfsTraversal (part_008:262-277, 283-317): the ids
\* of the node's subtree, or the id alone when the node is not in the tree.
DescendantIds(map, id) ==
  IF Rooted(map, id, MaxCategories)
  THEN {c \in Categories : /\ Rooted(map, c, MaxCategories)
                           /\ Under(map, id, c, MaxCategories)}
  ELSE {id}

\* getCategoryTree (part_008:180-210): the cached tree when there is one,
\* otherwise the tree of the rows, which is put into the cache.
GetCategoryTree(cached, rows) ==
  IF cached.present THEN [tree |-> cached.parent, cache |-> cached]
  ELSE [tree |-> rows, cache |-> [present |-> TRUE, parent |-> rows]]

CategoryAnswer(op, c, http, log) == Request(op, "", <<"category", c>>, http, log)

\* createCategory (part_008:357-390) with a valid name; the new row takes
\* the next id.
CreateCategory(parent) ==
  /\ UNCHANGED <<dbVars, stock0, dec, workerVars, factoryVars, tokenVars,
                 prodCache>>
  /\ io' = NoIo
  /\ IF parent # NoParent /\ ~CategoryExists(catParent, parent)
     THEN /\ last' = CategoryAnswer("createCategory", parent, HttpNotFound,
                                    "Parent category not found")
          /\ UNCHANGED <<catParent, catTree>>
     ELSE /\ \E c \in Categories : catParent[c] = Absent
          /\ LET c == CHOOSE c \in Categories :
                        /\ catParent[c] = Absent
                        /\ \A d \in Categories : catParent[d] = Absent => c <= d
             IN /\ catParent' = [catParent EXCEPT ![c] = parent]
                /\ last' = CategoryAnswer("createCategory", c, HttpOk,
                                          "Category created")
          /\ catTree' = NoTree

\* deleteCategory (part_008:439-471).
DeleteCategory(id) ==
  /\ UNCHANGED <<dbVars, stock0, dec, workerVars, factoryVars, tokenVars,
                 prodCache>>
  /\ io' = NoIo
  /\ IF ~CategoryExists(catParent, id)
     THEN /\ last' = CategoryAnswer("deleteCategory", id, HttpNotFound,
                                    "Category not found")
          /\ UNCHANGED <<catParent, catTree>>
     ELSE IF \E c \in Categories : catParent[c] = id
     THEN /\ last' = CategoryAnswer("deleteCategory", id, HttpBadRequest,
                                    "Cannot delete category with subcategories")
          /\ UNCHANGED <<catParent, catTree>>
     ELSE IF id = ProductCategory
     THEN /\ last' = CategoryAnswer("deleteCategory", id, HttpBadRequest,
                                    "Cannot delete category with products")
          /\ UNCHANGED <<catParent, catTree>>
     ELSE /\ catParent' = [catParent EXCEPT ![id] = Deleted]
          /\ catTree' = NoTree
          /\ last' = CategoryAnswer("deleteCategory", id, HttpOk,
                                    "Category deleted")

\* GET of the category tree (part_008:180-210).
ReadCategoryTree ==
  /\ UNCHANGED <<dbVars, stock0, dec, workerVars, factoryVars, tokenVars,
                 prodCache, catParent>>
  /\ io' = NoIo
  /\ catTree' = GetCategoryTree(catTree, CategoryRows).cache
  /\ last' = CategoryAnswer("categoryTree", NoParent, HttpOk,
                            IF catTree.present THEN "Category tree from cache"
                            ELSE "Category tree built and cached")

\* updateCategory of concurrent requests with data = {parentId}.  snap holds
\* the category and cursor the new parent, NoParent for null.
\* part_008:392-418: the category is fetched and the new parent validated.
C_Validate(w, id, parent) ==
  LET got == GetCategoryTree(catTree, CategoryRows)
      Refuse(http, log) == /\ last' = CategoryAnswer("updateCategory", id, http, log)
                           /\ io' = NoIo
                           /\ UNCHANGED workerVars
  IN /\ pc[w] = "idle"
     /\ UNCHANGED <<dbVars, stock0, dec, factoryVars, tokenVars, prodCache,
                    catParent>>
     /\ IF ~CategoryExists(catParent, id)
        THEN Refuse(HttpNotFound, "Category not found") /\ UNCHANGED catTree
        ELSE IF parent = id
        THEN /\ Refuse(HttpBadRequest, "Category cannot be its own parent")
             /\ UNCHANGED catTree
        ELSE IF parent # NoParent /\ ~CategoryExists(catParent, parent)
        THEN /\ Refuse(HttpNotFound, "Parent category not found")
             /\ UNCHANGED catTree
        ELSE IF parent # NoParent /\ parent \in DescendantIds(got.tree, id)
        THEN /\ Refuse(HttpBadRequest,
                       "Cannot create circular category relationship")
             /\ catTree' = got.cache
        ELSE /\ catTree' = IF parent # NoParent THEN got.cache ELSE catTree
             /\ pc' = [pc EXCEPT ![w] = "category update"]
             /\ snap' = [snap EXCEPT ![w] = id]
             /\ cursor' = [cursor EXCEPT ![w] = parent]
             /\ UNCHANGED <<last, io>>

\* part_008:420-430: prisma.category.update; it throws when the row or the
\* new parent's row is no longer there, which is answered 500.
C_Update(w) ==
  LET id == snap[w]
      parent == cursor[w]
  IN /\ pc[w] = "category update"
     /\ UNCHANGED <<dbVars, stock0, dec, factoryVars, tokenVars, prodCache,
                    catTree>>
     /\ IF \/ ~CategoryExists(catParent, id)
           \/ (parent # NoParent /\ ~CategoryExists(catParent, parent))
        THEN /\ last' = CategoryAnswer("updateCategory", id, HttpInternalError,
                                       "Internal server error")
             /\ io' = NoIo
             /\ pc' = [pc EXCEPT ![w] = "idle"]
             /\ snap' = [snap EXCEPT ![w] = NoPayment]
             /\ cursor' = [cursor EXCEPT ![w] = 0]
             /\ UNCHANGED catParent
        ELSE /\ catParent' = [catParent EXCEPT ![id] = parent]
             /\ pc' = [pc EXCEPT ![w] = "category invalidate"]
             /\ UNCHANGED <<last, io, snap, cursor>>

\* part_008:432-436: the cached tree is deleted and the request answered.
C_Invalidate(w) ==
  /\ pc[w] = "category invalidate"
  /\ UNCHANGED <<dbVars, stock0, dec, factoryVars, tokenVars, prodCache,
                 catParent>>
  /\ catTree' = NoTree
  /\ last' = CategoryAnswer("updateCategory", snap[w], HttpOk,
                            "Category updated")
  /\ io' = NoIo
  /\ pc' = [pc EXCEPT ![w] = "idle"]
  /\ snap' = [snap EXCEPT ![w] = NoPayment]
  /\ cursor' = [cursor EXCEPT ![w] = 0]

CreateCategoryStep ==
  \E parent \in Categories \cup {NoParent} : CreateCategory(parent)
DeleteCategoryStep == \E id \in Categories : DeleteCategory(id)
ValidateStep ==
  \E w \in Workers, id \in Categories, parent \in Categories \cup {NoParent} :
    C_Validate(w, id, parent)
CategoryUpdateStep == \E w \in Workers : C_Update(w)
InvalidateStep == \E w \in Workers : C_Invalidate(w)

\* The category requests, updateCategory by two concurrent requests.
NextCategories ==
  \/ CreateCategoryStep \/ DeleteCategoryStep \/ ReadCategoryTree
  \/ ValidateStep \/ CategoryUpdateStep \/ InvalidateStep
SpecCategories == InitCore /\ [][NextCategories]_vars

\* ================================================================ claims
\* Units of product pr ordered by order o.
RECURSIVE QtySum(_, _, _)
QtySum(items, i, pr) ==
  IF i > Len(items) THEN 0
  ELSE (IF items[i].productId = pr THEN items[i].quantity ELSE 0)
       + QtySum(items, i + 1, pr)
Qty(o, pr) == QtySum(orders[o], 1, pr)

RECURSIVE SettledQty(_, _)
SettledQty(os, pr) ==
  IF os = {} THEN 0
  ELSE LET o == CHOOSE x \in os : TRUE
       IN (IF payStatus[o] = "SUCCESS" THEN Qty(o, pr) ELSE 0)
          + SettledQty(os \ {o}, pr)

HasPayment(o) == payStatus[o] # "NONE"
Short(o) == \E i \in 1..Len(orders[o]) :
              stock[orders[o][i].productId] < orders[o][i].quantity
HandledTypes ==
  { "payment_intent.succeeded", "payment_intent.payment_failed",
    "payment_intent.canceled" }
\* The step just taken handled a signature-verified event of this type for
\* the external id carried by the Payment of order o.
Notified(o, type) ==
  /\ last'.op = "webhook" /\ last'.type = type
  /\ HasPayment(o) /\ payTxn[o] = last'.arg

\* C1: with only payment_intent.succeeded notifications delivered, however
\* many of them, each order's stock reduction has been committed exactly once
\* when its Payment is SUCCESS and not at all otherwise, and every product's
\* stock is its initial stock minus the quantities of the settled orders.
C1_DuplicateSuccessDecrementsOnce ==
  /\ \A o \in OrderIds : dec[o] = IF payStatus[o] = "SUCCESS" THEN 1 ELSE 0
  /\ \A pr \in Products : stock[pr] = stock0[pr] - SettledQty(OrderIds, pr)

C1_Witness ==
  \E o \in OrderIds :
    /\ last.log = "Payment already processed" /\ last.arg = payTxn[o]
    /\ payStatus[o] = "SUCCESS" /\ dec[o] = 1
    /\ \E pr \in Products : Qty(o, pr) > 0 /\ stock[pr] < stock0[pr]

\* C2: once Payment.status is SUCCESS, no webhook notification changes
\* Payment.status or the Order's status.
C2_SuccessIsTerminal ==
  [][\A o \in OrderIds :
       (payStatus[o] = "SUCCESS" /\ last'.op = "webhook")
         => (payStatus'[o] = "SUCCESS" /\ ordStatus'[o] = ordStatus[o])]_vars

\* C3: whatever notifications are delivered for a payment, in any order, the
\* stock reduction of its order is committed at most once.
C3_AtMostOneDecrement == \A o \in OrderIds : dec[o] <= 1

\* C4: with success notifications handled concurrently, no order has more
\* units of a product deducted than it ordered.
C4_ConcurrentSuccessDecrementsOnce ==
  \A o \in OrderIds : \A pr \in Products : dec[o] * Qty(o, pr) <= Qty(o, pr)

\* C5: no product's stock is ever negative, also with settlements of
\* different orders for the same product running concurrently.
C5_StockNeverNegative == \A pr \in Products : stock[pr] >= 0

\* C6: a success notification for an order with a line item whose product
\* has stock < quantity leaves every product's stock, every Payment.status
\* and every Order.status as they were.
C6_InsufficientStockRollsBack ==
  [][\A o \in OrderIds :
       (Notified(o, "payment_intent.succeeded") /\ Short(o))
         => (stock' = stock /\ payStatus' = payStatus /\ ordStatus' = ordStatus)]_vars

\* The first item of a two-item order was in stock, the second was not, and
\* the notification was answered with the payment error.
C6_Witness ==
  \E o \in OrderIds :
    /\ last.log = "Insufficient stock" /\ last.op = "webhook"
    /\ last.arg = payTxn[o] /\ payStatus[o] = "PENDING" /\ ordStatus[o] = "PENDING"
    /\ Len(orders[o]) = 2
    /\ stock[orders[o][1].productId] >= orders[o][1].quantity
    /\ stock[orders[o][2].productId] < orders[o][2].quantity

\* C7: a success notification for a found Payment that is not SUCCESS, with
\* stock for every line item, sets Payment SUCCESS, Order PAID and reduces
\* each ordered product's stock by the item quantity, all in one step; and a
\* success notification never commits only part of that.
C7_SettlementIsAtomic ==
  [][\A o \in OrderIds :
       Notified(o, "payment_intent.succeeded") =>
         LET settled ==
               /\ payStatus' = [payStatus EXCEPT ![o] = "SUCCESS"]
               /\ ordStatus' = [ordStatus EXCEPT ![o] = "PAID"]
               /\ stock' = [pr \in Products |-> stock[pr] - Qty(o, pr)]
               /\ last'.http = HttpOk
             untouched ==
               stock' = stock /\ payStatus' = payStatus /\ ordStatus' = ordStatus
         IN /\ (payStatus[o] # "SUCCESS" /\ ~Short(o)) => settled
            /\ settled \/ untouched]_vars

C7_Witness ==
  \E o \in OrderIds :
    /\ last.log = "Payment successful" /\ last.arg = payTxn[o]
    /\ payStatus[o] = "SUCCESS" /\ ordStatus[o] = "PAID"
    /\ \A n \in OrderIds \ {o} : dec[n] = 0
    /\ \A pr \in Products : stock[pr] = stock0[pr] - Qty(o, pr)
    /\ Len(orders[o]) = 2

\* C8: verifyPayment with verified = true on a Payment that is not SUCCESS
\* ends, for either provider, with the Payment.status, Order.status and
\* stocks the success notification ends with from the same state.
C8_VerifyEqualsWebhookSuccess ==
  [][\A o \in OrderIds :
       (/\ last'.op = "verify" /\ last'.type = "verified"
        /\ last'.arg = <<"payment", o>>
        /\ payStatus[o] \in {"PENDING", "FAILED"})
         => LET hook == Transaction(Db, SuccessTxBody(Db, o))
            IN /\ payStatus'[o] = hook.payStatus[o]
               /\ ordStatus'[o] = hook.ordStatus[o]
               /\ stock' = hook.stock]_vars

\* C9: verifyPayment with verified = true on a Payment that is already
\* SUCCESS changes neither Payment.status nor Order.status nor any stock.
C9_VerifyOnSuccessIsNoOp ==
  [][\A o \in OrderIds :
       (/\ last'.op = "verify" /\ last'.type = "verified"
        /\ last'.arg = <<"payment", o>>
        /\ payStatus[o] = "SUCCESS")
         => (payStatus' = payStatus /\ ordStatus' = ordStatus /\ stock' = stock)]_vars

\* C10: a verified notification of a handled type whose external id matches
\* no Payment changes no Payment, Order or Product and is answered 200.
C10_UnknownTransactionAccepted ==
  [][(/\ last'.op = "webhook" /\ last'.type \in HandledTypes
      /\ \A o \in OrderIds : ~(HasPayment(o) /\ payTxn[o] = last'.arg))
       => (UNCHANGED dbVars /\ last'.http = HttpOk)]_vars

C10_Witness ==
  /\ last.op = "webhook" /\ last.type \in HandledTypes /\ last.http = HttpOk
  /\ last.log = "Payment not found for transaction"
  /\ \A o \in OrderIds : ~(HasPayment(o) /\ payTxn[o] = last.arg)
  /\ \E o \in OrderIds : payStatus[o] = "PENDING" /\ payProvider[o] = "STRIPE"

\* C11: a webhook request whose signature header does not verify for its
\* payload is answered with an error before any event is dispatched: no
\* verified event type is handled and no Payment, Order or Product changes.
C11_UnverifiedEventNeverDispatched ==
  [][(last'.op = "webhook" /\ io'.sig # "valid")
       => (/\ UNCHANGED dbVars
           /\ last'.type = ""
           /\ last'.http # HttpOk
           /\ io'.sig = "invalid" => last'.http = HttpPaymentError)]_vars

\* A request with a bad signature named the intent of a PENDING payment and
\* was refused.
C11_Witness ==
  /\ last.op = "webhook" /\ io.sig = "invalid" /\ last.http = HttpPaymentError
  /\ \E o \in OrderIds :
       payStatus[o] = "PENDING" /\ payTxn[o] = last.arg /\ ordStatus[o] = "PENDING"

\* C12: refundPayment on a Payment that is PENDING or FAILED is answered
\* with the payment error, makes no call to the provider and changes no
\* Payment, Order or Product.
C12_RefundRequiresSuccess ==
  [][\A o \in OrderIds :
       (/\ last'.op = "refund" /\ last'.arg = <<"payment", o>>
        /\ payStatus[o] \in {"PENDING", "FAILED"})
         => (/\ UNCHANGED dbVars
             /\ last'.http = HttpPaymentError
             /\ io'.remote = "none")]_vars

\* A refund was refused for a FAILED payment whose order is PAID.
C12_Witness ==
  \E o \in OrderIds :
    /\ last.op = "refund" /\ last.arg = <<"payment", o>>
    /\ last.http = HttpPaymentError /\ io.remote = "none"
    /\ payStatus[o] = "FAILED" /\ ordStatus[o] = "PAID"

\* C13: a refund the provider accepts for a SUCCESS Payment sets
\* Payment.status FAILED and records refundId, refundedAt and refundAmount
\* (the order total when the request gives no amount); every Order.status
\* and every product's stock stay as they were.
C13_RefundLeavesOrderAndStock ==
  [][\A o \in OrderIds :
       (/\ last'.op = "refund" /\ last'.arg = <<"payment", o>>
        /\ payStatus[o] = "SUCCESS" /\ io'.remote = "ok")
         => (/\ payStatus' = [payStatus EXCEPT ![o] = "FAILED"]
             /\ payRaw'[o].refundId # NoTxn
             /\ payRaw'[o].refundedAt
             /\ payRaw'[o].refundAmount =
                  IF last'.type = "full" THEN ordTotal[o] ELSE PartialAmount
             /\ ordStatus' = ordStatus
             /\ stock' = stock
             /\ last'.http = HttpOk)]_vars

\* A refund without an amount went through for a settled two-item order.
C13_Witness ==
  \E o \in OrderIds :
    /\ last.op = "refund" /\ last.arg = <<"payment", o>> /\ last.http = HttpOk
    /\ last.type = "full" /\ Len(orders[o]) = 2
    /\ payStatus[o] = "FAILED" /\ ordStatus[o] = "PAID"
    /\ payRaw[o].refundAmount = ordTotal[o] /\ ordTotal[o] > PartialAmount
    /\ \A pr \in Products : stock[pr] = stock0[pr] - Qty(o, pr)

\* C14: initiatePayment for an order that already has a Payment, whether
\* PENDING, SUCCESS or FAILED, is answered with the payment error without
\* calling the provider, and the order's Payment and everything else stay as
\* they were.
C14_SecondInitiationRejected ==
  [][\A o \in OrderIds :
       (/\ last'.op = "initiate" /\ last'.arg = <<"order", o>>
        /\ payStatus[o] \in {"PENDING", "SUCCESS", "FAILED"})
         => (/\ UNCHANGED dbVars
             /\ last'.http = HttpPaymentError
             /\ io'.remote = "none")]_vars

\* An initiation was refused for an order whose only Payment had failed.
C14_Witness ==
  \E o \in OrderIds :
    /\ last.op = "initiate" /\ last.arg = <<"order", o>>
    /\ last.http = HttpPaymentError
    /\ last.log = "Payment already initiated for this order"
    /\ payStatus[o] = "FAILED" /\ ordStatus[o] = "PENDING"

\* C15: a payment_failed notification for a found Payment sets that
\* Payment's status to FAILED and leaves every Order.status and every
\* product's stock as they were.
C15_FailedNotificationFrame ==
  [][\A o \in OrderIds :
       Notified(o, "payment_intent.payment_failed")
         => (/\ payStatus' = [payStatus EXCEPT ![o] = "FAILED"]
             /\ ordStatus' = ordStatus
             /\ stock' = stock
             /\ last'.http = HttpOk)]_vars

\* A PENDING payment failed while its order stayed PENDING.
C15_Witness ==
  \E o \in OrderIds :
    /\ last.op = "webhook" /\ last.type = "payment_intent.payment_failed"
    /\ last.arg = payTxn[o] /\ last.log = "Payment failed"
    /\ payStatus[o] = "FAILED" /\ ordStatus[o] = "PENDING"
    /\ payRaw[o].webhookEvent = "payment_intent.payment_failed"

\* C16: a canceled notification for a found Payment sets, in one step, that
\* Payment's status to FAILED and its Order's status to CANCELED, and
\* changes no product's stock.
C16_CanceledNotificationCancelsOrder ==
  [][\A o \in OrderIds :
       Notified(o, "payment_intent.canceled")
         => (/\ payStatus' = [payStatus EXCEPT ![o] = "FAILED"]
             /\ ordStatus' = [ordStatus EXCEPT ![o] = "CANCELED"]
             /\ stock' = stock
             /\ last'.http = HttpOk)]_vars

\* A PENDING payment was canceled together with its order.
C16_Witness ==
  \E o \in OrderIds :
    /\ last.op = "webhook" /\ last.type = "payment_intent.canceled"
    /\ last.arg = payTxn[o] /\ last.log = "Payment canceled"
    /\ payStatus[o] = "FAILED" /\ ordStatus[o] = "CANCELED"
    /\ dec[o] = 0 /\ stock = stock0

\* C17: updateOrderStatus on an existing order performs exactly the
\* transitions PENDING -> PAID, PENDING -> CANCELED, PAID -> PENDING and
\* PAID -> CANCELED; every other pair, any request on a CANCELED order and
\* any request for the status the order already has included, is answered
\* with the validation error and changes nothing.
C17_OnlyTabledTransitions ==
  [][\A o \in OrderIds :
       (/\ last'.op = "updateStatus" /\ last'.arg = <<"order", o>>
        /\ ordStatus[o] # "NONE")
         => IF <<ordStatus[o], last'.type>> \in
                 { <<"PENDING", "PAID">>, <<"PENDING", "CANCELED">>,
                   <<"PAID", "PENDING">>, <<"PAID", "CANCELED">> }
            THEN /\ ordStatus' = [ordStatus EXCEPT ![o] = last'.type]
                 /\ last'.http = HttpOk
            ELSE /\ UNCHANGED dbVars
                 /\ last'.http = HttpBadRequest]_vars

\* A request to reopen a CANCELED order was refused, while the other order
\* had been moved to PAID.
C17_Witness ==
  \E o \in OrderIds, n \in OrderIds :
    /\ last.op = "updateStatus" /\ last.arg = <<"order", o>>
    /\ last.type = "PENDING" /\ last.http = HttpBadRequest
    /\ ordStatus[o] = "CANCELED" /\ ordStatus[n] = "PAID"

\* The step just taken was a settlement attempt for the Payment of order o:
\* a verified success notification, or a manual verification the provider
\* answered with verified = true.
SettlementAttempt(o) ==
  \/ Notified(o, "payment_intent.succeeded")
  \/ /\ last'.op = "verify" /\ last'.type = "verified"
     /\ last'.arg = <<"payment", o>>

\* C18: a settlement attempt aborted for insufficient stock leaves a PENDING
\* Payment PENDING, and once the stock covers the order's quantities again a
\* later success notification or verification of that PENDING Payment sets
\* Payment SUCCESS, Order PAID and reduces each ordered product's stock by
\* the ordered quantity, once.
C18_RetryAfterRestockSettles ==
  [][\A o \in OrderIds :
       (SettlementAttempt(o) /\ payStatus[o] = "PENDING")
         => IF last'.log = "Insufficient stock"
            THEN payStatus'[o] = "PENDING"
            ELSE ~Short(o)
                 => (/\ payStatus'[o] = "SUCCESS"
                     /\ ordStatus'[o] = "PAID"
                     /\ stock' = [pr \in Products |-> stock[pr] - Qty(o, pr)]
                     /\ dec'[o] = dec[o] + 1)]_vars

\* C19: the response to a webhook request whose signature verified is the
\* plain acknowledgement; the message of a failure met while handling the
\* event, such as insufficient stock, is not in it.
C19_WebhookHidesBusinessFailures ==
  (last.op = "webhook" /\ io.sig = "valid")
    => (last.http = HttpOk /\ ResponseBody(last) # "Insufficient stock")

\* C20: a manual verification during which the provider API cannot be
\* reached is answered with an error and leaves every Payment.status, every
\* Order.status and every product's stock as they were.
C20_UnreachableProviderChangesNothing ==
  [][\A o \in OrderIds :
       (/\ last'.op = "verify" /\ last'.arg = <<"payment", o>>
        /\ HasPayment(o) /\ io'.remote = "unreachable")
         => (/\ payStatus' = payStatus
             /\ ordStatus' = ordStatus
             /\ stock' = stock
             /\ last'.http # HttpOk)]_vars

\* ---------------------------------------------------------------- C21
RECURSIVE C21_Sum(_, _)
C21_Sum(items, i) ==
  IF i > Len(items) THEN 0
  ELSE items[i].price * items[i].quantity + C21_Sum(items, i + 1)

\* C21: for every order each item's subtotal is its price times its
\* quantity and totalAmount is the sum of price * quantity over the items;
\* the item price is the product's price when the order was created; and no
\* later request (product price update, payment, settlement, refund, status
\* update, cancel) changes an existing order's items or its totalAmount.
C21_TotalsFixedAtCreation ==
  /\ [](\A o \in OrderIds :
          ordStatus[o] # "NONE" =>
            /\ \A i \in 1..Len(orders[o]) :
                 orders[o][i].subtotal
                   = orders[o][i].price * orders[o][i].quantity
            /\ ordTotal[o] = C21_Sum(orders[o], 1))
  /\ [][\A o \in OrderIds :
          /\ (ordStatus[o] = "NONE" /\ ordStatus'[o] # "NONE") =>
               \A i \in 1..Len(orders'[o]) :
                 orders'[o][i].price = price[orders'[o][i].productId]
          /\ ordStatus[o] # "NONE" =>
               /\ orders'[o] = orders[o]
               /\ ordTotal'[o] = ordTotal[o]]_vars

\* An order of two units exists, the product's price was changed after the
\* order was created, and the order has been settled.
C21_Witness ==
  \E o \in OrderIds :
    /\ ordStatus[o] = "PAID"
    /\ payStatus[o] = "SUCCESS"
    /\ \E i \in 1..Len(orders[o]) :
         /\ orders[o][i].quantity = 2
         /\ orders[o][i].price # price[orders[o][i].productId]

\* ---------------------------------------------------------------- C22
\* C22: getStrategy constructs a provider's instance on first use and
\* returns that same instance to every later call naming the provider, in
\* any letter case, until clearCache; after clearCache the next call
\* constructs a fresh instance; the cache holds at most one instance per
\* provider, under the lower-case name.
C22_OneCachedInstancePerProvider ==
  /\ [](DOMAIN strategies \subseteq {StripeName, BkashName})
  /\ [][/\ \A k \in DOMAIN strategies :
            IF last'.op = "clearCache"
            THEN strategies' = EmptyMap
            ELSE k \in DOMAIN strategies' /\ strategies'[k] = strategies[k]
        /\ (last'.op = "getStrategy" /\ last'.http = HttpOk) =>
             LET key == ToLowerCase(NameOf(last'.type))
                 class == IF key = StripeName THEN "StripePaymentStrategy"
                          ELSE "BkashPaymentStrategy"
                 got == [class |-> last'.arg[1], id |-> last'.arg[2]]
             IN /\ key \in DOMAIN strategies' /\ strategies'[key] = got
                /\ got.class = class
                /\ IF key \in DOMAIN strategies
                   THEN got = strategies[key] /\ made' = made
                   ELSE /\ got.id = made[class] + 1
                        /\ made' = [made EXCEPT ![class] = @ + 1]]_vars

\* After a clearCache the second instance of the Stripe strategy was
\* constructed, and a call naming it in upper case got that cached instance.
C22_Witness ==
  /\ last.op = "getStrategy"
  /\ last.type = "STRIPE"
  /\ last.log = "Using cached strategy for provider"
  /\ last.arg = <<"StripePaymentStrategy", 2>>
  /\ made["StripePaymentStrategy"] = 2

\* ---------------------------------------------------------------- C23
\* C23: getStrategy matches the name against {stripe, bkash} without regard
\* to letter case; any other name fails with a ValidationError that lists
\* the supported providers and leaves the cache as it was.
C23_UnsupportedProviderRejected ==
  [][last'.op = "getStrategy" =>
       LET supported ==
             last'.type \in {"stripe", "STRIPE", "Stripe",
                             "bkash", "BKASH", "bKash"}
       IN IF supported
          THEN last'.http = HttpOk
          ELSE /\ last'.http = HttpBadRequest
               /\ last'.log
                    = "Unsupported payment provider. Supported providers: stripe, bkash"
               /\ strategies' = strategies
               /\ made' = made]_vars

\* With the Stripe strategy cached, an unsupported provider was asked for.
C23_Witness ==
  /\ last.op = "getStrategy"
  /\ last.type = "PayPal"
  /\ last.http = HttpBadRequest
  /\ StripeName \in DOMAIN strategies

\* ---------------------------------------------------------------- C24
\* C24: a webhook request whose signature verifies is answered 200 with
\* {received: true} whenever the handler completes without throwing; for an
\* event type other than succeeded, payment_failed and canceled it always
\* is, and no Payment, Order or Product row changes.
C24_VerifiedEventAcknowledged ==
  [][(last'.op = "webhook" /\ io'.sig = "valid") =>
       /\ last'.log # "Insufficient stock" =>
            (last'.http = HttpOk /\ ResponseBody(last') = "received")
       /\ last'.type \notin {"payment_intent.succeeded",
                             "payment_intent.payment_failed",
                             "payment_intent.canceled"} =>
            /\ last'.http = HttpOk
            /\ ResponseBody(last') = "received"
            /\ UNCHANGED dbVars]_vars

\* A verified payment_intent.created event named the intent of a PENDING
\* payment and was acknowledged.
C24_Witness ==
  /\ last.op = "webhook"
  /\ last.type = "payment_intent.created"
  /\ io.sig = "valid"
  /\ last.http = HttpOk
  /\ \E o \in OrderIds : payTxn[o] = last.arg /\ payStatus[o] = "PENDING"

\* ---------------------------------------------------------------- C25
\* C25: a webhook request whose signature does not verify is answered with
\* HTTP 400 and the message "Invalid webhook signature", and no row of the
\* database changes.
C25_InvalidSignatureIsBadRequest ==
  [][(last'.op = "webhook" /\ io'.sig = "invalid") =>
       /\ last'.http = HttpBadRequest
       /\ ResponseBody(last') = "Invalid webhook signature"
       /\ UNCHANGED dbVars]_vars

\* ---------------------------------------------------------------- C26
\* C26: getToken returns the cached token exactly when there is one whose
\* expiry is more than five minutes ahead, so a token taken from the cache
\* has more than five minutes left; otherwise it asks for a new token, which
\* replaces the cached token and expiry; a grant call that fails raises
\* PaymentError and leaves the cached token and expiry as they were.
C26_TokenReusedOnlyOutsideBuffer ==
  [][last'.op = "getToken" =>
       LET usable == token # NoToken /\ tokenExpiry - now > TokenBuffer
       IN /\ last'.type = "cached" <=> usable
          /\ last'.type = "cached" =>
               /\ last'.arg = <<"token", token>>
               /\ io'.remote = "none"
               /\ UNCHANGED <<token, tokenExpiry>>
          /\ ~usable => io'.remote \in {"ok", "unreachable"}
          /\ io'.remote = "ok" =>
               /\ last'.type = "granted"
               /\ last'.http = HttpOk
               /\ token' = last'.arg[2]
               /\ token' # NoToken
               /\ tokenExpiry' > now
          /\ io'.remote = "unreachable" =>
               /\ last'.http = HttpPaymentError
               /\ last'.log = "Failed to authenticate with bKash"
               /\ UNCHANGED <<token, tokenExpiry>>]_vars

\* A grant failed while a token with exactly five minutes left was cached:
\* the token was not reused and is still cached.
C26_Witness ==
  /\ last.op = "getToken"
  /\ io.remote = "unreachable"
  /\ token # NoToken
  /\ now > 0
  /\ tokenExpiry = now + TokenBuffer

\* ---------------------------------------------------------------- C27
\* C27: once refundPayment has moved a Payment from SUCCESS to FAILED, no
\* later request moves it back to SUCCESS or decrements the stock for its
\* order again.
C27_RefundDoesNotReopen ==
  [][\A o \in OrderIds :
       payRaw[o].refundedAt =>
         /\ payStatus'[o] # "SUCCESS"
         /\ dec'[o] = dec[o]]_vars

\* ---------------------------------------------------------------- C28
\* C28: Payment.rawResponse is append-only: an entry a request has recorded
\* (the initiation response, a webhook event, a verification result, the
\* refund metadata) is never removed or overwritten by a later request.
C28_RawResponseAppendOnly ==
  [][\A o \in OrderIds :
       /\ payRaw[o].initiated => payRaw'[o].initiated
       /\ payRaw[o].webhookEvent # "" =>
            payRaw'[o].webhookEvent = payRaw[o].webhookEvent
       /\ payRaw[o].verificationResult # "" =>
            payRaw'[o].verificationResult = payRaw[o].verificationResult
       /\ payRaw[o].refundId # NoTxn =>
            /\ payRaw'[o].refundId = payRaw[o].refundId
            /\ payRaw'[o].refundAmount = payRaw[o].refundAmount]_vars

\* ---------------------------------------------------------------- C29
\* C29: verifyPayment never moves a Payment out of SUCCESS: when the status
\* is SUCCESS and the provider's verification is not verified, or the call
\* to the provider failed, the status stays SUCCESS.
C29_VerifyKeepsSuccess ==
  [][\A o \in OrderIds :
       (/\ last'.op = "verify"
        /\ last'.arg = <<"payment", o>>
        /\ payStatus[o] = "SUCCESS")
         => payStatus'[o] = "SUCCESS"]_vars

\* ---------------------------------------------------------------- C30
\* C30, as the code has it: a success notification for a Payment that is
\* not SUCCESS, when the stock covers every line item, sets the Payment
\* SUCCESS and the Order PAID and decrements the stock, whatever the
\* Order's status was, CANCELED included; the administrator's transition
\* table is not consulted.
C30_SettlementOverridesOrderStatus ==
  [][\A o \in OrderIds :
       (/\ Notified(o, "payment_intent.succeeded")
        /\ payStatus[o] # "SUCCESS"
        /\ ~Short(o))
         => (/\ payStatus'[o] = "SUCCESS"
             /\ ordStatus'[o] = "PAID"
             /\ stock' = [pr \in Products |-> stock[pr] - Qty(o, pr)]
             /\ dec'[o] = dec[o] + 1)]_vars

\* Order 1, cancelled to begin with, has been settled by its first success
\* notification: it is PAID and its stock has been taken once.
C30_Witness ==
  /\ last.op = "webhook"
  /\ last.type = "payment_intent.succeeded"
  /\ last.arg = Intent(1)
  /\ last.http = HttpOk
  /\ ordStatus[1] = "PAID"
  /\ payStatus[1] = "SUCCESS"
  /\ dec[1] = 1
  /\ \A pr \in Products : stock[pr] = stock0[pr] - Qty(1, pr)

\* C30 as stated: a success notification for a Payment that is not SUCCESS
\* sets the Order PAID and decrements the stock whatever the Order's status.
C30_AsStated ==
  [][\A o \in OrderIds :
       (/\ Notified(o, "payment_intent.succeeded")
        /\ payStatus[o] # "SUCCESS")
         => (/\ ordStatus'[o] = "PAID"
             /\ stock' = [pr \in Products |-> stock[pr] - Qty(o, pr)])]_vars

C32_OnePaymentPerOrder ==
  \A o \in OrderIds :
    /\ payRows[o] <= 1
    /\ payRows[o] = 1 <=> payStatus[o] # "NONE"

\* Two requests for one order both passed the check and reached the
\* provider; the second create was refused and the order has one Payment.
C32_Witness ==
  /\ last.op = "initiate"
  /\ last.http = HttpInternalError
  /\ payRows[last.arg[2]] = 1
  /\ payStatus[last.arg[2]] = "PENDING"

\* ---------------------------------------------------------------- C33
\* C33: on the manual verification path an error raised inside the
\* settlement transaction rolls everything back and reaches the caller: a
\* verified verification of a bKash payment whose order has a line item
\* with stock < quantity is answered with the payment error, and every
\* verification answered with an error leaves Payment.status,
\* Payment.transactionId, Payment.rawResponse, Order.status and every
\* product's stock as they were before the call.
C33_VerifyErrorRollsBack ==
  [][/\ \A o \in OrderIds :
          (/\ last'.op = "verify" /\ last'.type = "verified"
           /\ last'.arg = <<"payment", o>>
           /\ payProvider[o] = "BKASH" /\ Short(o))
            => (last'.http = HttpPaymentError /\ payStatus'[o] = payStatus[o])
     /\ (last'.op = "verify" /\ last'.http # HttpOk)
          => (/\ payStatus' = payStatus /\ payTxn' = payTxn
              /\ payRaw' = payRaw /\ ordStatus' = ordStatus
              /\ stock' = stock)]_vars

\* After a restock that covered the first item of a two-item bKash order but
\* not the second, a verified verification was answered with the payment
\* error; the Payment is still PENDING with the id of its initiation.
C33_Witness ==
  \E o \in OrderIds :
    /\ last.op = "verify" /\ last.type = "verified"
    /\ last.arg = <<"payment", o>> /\ last.http = HttpPaymentError
    /\ payProvider[o] = "BKASH" /\ payStatus[o] = "PENDING"
    /\ payTxn[o] = BkashId(o) /\ ordStatus[o] = "PENDING"
    /\ ~payRaw[o].verifiedAt
    /\ stock # stock0
    /\ Len(orders[o]) = 2
    /\ stock[orders[o][1].productId] >= orders[o][1].quantity
    /\ stock[orders[o][2].productId] < orders[o][2].quantity

\* ---------------------------------------------------------------- C34
\* C34: in every state reachable by initiations, notifications and
\* verifications, a Payment that is SUCCESS has had each line item's
\* quantity deducted from its product's stock exactly once for its order.
C34_SuccessMeansDeductedOnce ==
  \A o \in OrderIds :
    payStatus[o] = "SUCCESS"
      => (/\ dec[o] = 1
          /\ \A pr \in Products : stock[pr] <= stock0[pr] - Qty(o, pr))

\* ---------------------------------------------------------------- C35
\* C35: cancelOrder only ever cancels an order that is PENDING when it is
\* written, also beside a settlement of the same order: no order is
\* CANCELED while its Payment is SUCCESS and its stock has been deducted.
C35_NoCanceledSettledOrder ==
  \A o \in OrderIds :
    ~(ordStatus[o] = "CANCELED" /\ payStatus[o] = "SUCCESS" /\ dec[o] >= 1)

\* ---------------------------------------------------------------- C36
\* C36: the provider's refund operation is invoked at most once for a
\* settled payment: two refundPayment requests for the same Payment never
\* both have their refund accepted by the provider.
C36_ProviderRefundsOnce ==
  \A w \in Workers, v \in Workers :
    (w # v /\ ProviderRefunded(w) /\ ProviderRefunded(v))
      => snap[w] # snap[v]

\* ---------------------------------------------------------------- C38
\* C38: after a committed change to a product, by updateProduct or by a
\* settlement's stock decrement, getProductById answers the product's
\* current stock and checkStockAvailability compares the quantity with it:
\* neither answers from a cache entry written before the change.
C38_ReadsSeeCommittedProduct ==
  [][/\ last'.op = "getProduct"
          => last'.arg[2] = stock[last'.arg[1]]
     /\ last'.op = "checkStock"
          => (last'.log = "available"
                <=> stock[last'.arg[1]] >= last'.arg[2])]_vars

\* ---------------------------------------------------------------- C37
\* C37: the category parent relation is acyclic in every state reachable by
\* createCategory, updateCategory and deleteCategory: from every category
\* the chain of parents ends at a root.
C37_CategoriesAcyclic ==
  \A c \in Categories :
    CategoryExists(catParent, c) => Rooted(catParent, c, MaxCategories)

====
